---- MODULE Spec2Model ----
(***************************************************************************)
(* A model of pgsrip: the PGS segment reader (pgs.py), the RLE image       *)
(* decoder (pgs.py), the subtitle item builder (media.py), the mosaic      *)
(* layout and the OCR retry loop (ripper.py), the media path               *)
(* (media_path.py), the track selection of an MKV (mkv.py) and the         *)
(* per-source orchestration (sup.py, media.py, core.py, cli.py).           *)
(*                                                                         *)
(* Bytes are naturals 0..255, byte strings are sequences of bytes.  Python *)
(* None is the empty sequence and a present value x is <<x>>.              *)
(***************************************************************************)
EXTENDS Integers, Sequences, FiniteSets, TLC

VARIABLES
    \* --- PgsReader.read_segments / PgsReader.decode / Pgs.decode ---------
    stream,        \* the segments of the whole stream S the input was cut from
    data,          \* the bytes handed to PgsReader (a prefix of S)
    b,             \* read_segments: the bytes not consumed yet
    yielded,       \* the segments read_segments has yielded so far
    segments,      \* PgsReader.decode: segments of the display set being built
    display_sets,  \* Pgs.decode: the display sets collected so far
    rpc,           \* where Pgs.decode is: "read", "stopped", "done", "raised"
    items,         \* Pgs.items: the list create_items returned (when rpc = "done")
    \* --- PgsImage.decode_rle_image ---------------------------------------
    rle_data,      \* the argument data
    palettes,      \* the argument palettes
    binary,        \* the argument binary
    pos,           \* the local i: the next position of data to decode
    image_array,   \* the local image_array
    alpha_array,   \* the local alpha_array
    cols,          \* the local cols
    rle_pc,        \* "loop", "done" (returned) or "raised"
    image,         \* the image returned: its shape and its elements, row-major
    \* --- FullImage.from_items --------------------------------------------
    m_items,       \* the argument items (item.place is written by the layout)
    m_gap,         \* the argument gap: (gap_y, gap_x)
    m_max_width,   \* the argument max_width
    m_pc,          \* "call", "done" (returned) or "raised"
    m_areas,       \* the ImageAreas from_items built: the item indexes of each
    full_image,    \* the shape (height, width) of the FullImage returned
    \* --- PgsToSrtRipper.rip ----------------------------------------------
    pgs_items,     \* Pgs.items: the items, with the text and place written
    options,       \* Options: confidence and tesseract_width (or None)
    ocr,           \* how the OCR engine answers in this run
    ripper,        \* the PgsToSrtRipper: confidence, max_tess_width, gap
    rip_items,     \* the local items: positions in pgs_items still unresolved
    subs,          \* the SubRipFile: the records appended
    confidence,    \* the local confidence
    max_width,     \* the local max_width
    previous_size, \* the local previous_size
    calls,         \* the calls of process made so far, oldest first
    rip_pc,        \* "new", "loop", "final", "done" or "raised"
    \* --- MediaPath.translate ---------------------------------------------
    mp_objs,       \* the MediaPath objects alive, in order of creation
    mp_calls,      \* the calls of translate made so far, oldest first
    \* --- Mkv.get_pgs_medias ----------------------------------------------
    mkv_tracks,    \* Mkv.tracks: the tracks mkvmerge reported
    mkv_options,   \* the Options handed to get_pgs_medias
    mkv_sorted,    \* the local tracks: filtered and sorted
    mkv_pos,       \* the position of the for loop in the local tracks
    mkv_out,       \* the MkvPgs yielded so far
    mkv_pc,        \* "call", "loop", "done" or "raised"
    \* --- cli.pgsrip / core.rip_pgs: a batch of sources --------------------
    b_sources,     \* the sources of the batch, in order
    b_options,     \* Options: overwrite, srt_age, keep_temp_files
    fs_srt,        \* the file system: path -> None or the file at the path
    fs_temp,       \* the file system: the temporary folders that exist
    scanned,       \* how many sources the collecting loop has handled
    collected,     \* collected_pgs_medias: the Pgs objects to rip
    results,       \* one record per call of rip_pgs, oldest first
    ripped_count,  \* the local ripped_count
    b_pc,          \* "run", or "aborted" when an exception left the loop
    \* --- TsvData / PgsToSrtRipper.accept on one item ---------------------
    t_rows,        \* the rows tess.image_to_data returned, in its order
    t_conf,        \* the argument confidence
    t_item,        \* the item: its place, and the text accept writes
    t_data,        \* the TsvData built from the rows (None before)
    t_result,      \* what accept returned: None, or the text
    t_pc           \* "new", "data" (TsvData built) or "done" (returned)

readerVars == <<stream, data, b, yielded, segments, display_sets, rpc, items>>
rleVars == <<rle_data, palettes, binary, pos, image_array, alpha_array, cols,
             rle_pc, image>>

mosaicVars == <<m_items, m_gap, m_max_width, m_pc, m_areas, full_image>>

ripVars == <<pgs_items, options, ocr, ripper, rip_items, subs, confidence,
             max_width, previous_size, calls, rip_pc>>

pathVars == <<mp_objs, mp_calls>>

mkvVars == <<mkv_tracks, mkv_options, mkv_sorted, mkv_pos, mkv_out, mkv_pc>>

batchVars == <<b_sources, b_options, fs_srt, fs_temp, scanned, collected,
               results, ripped_count, b_pc>>

tsvVars == <<t_rows, t_conf, t_item, t_data, t_result, t_pc>>

orchVars == <<pathVars, mkvVars, batchVars, tsvVars>>

vars == <<readerVars, rleVars, mosaicVars, ripVars, orchVars>>

-----------------------------------------------------------------------------
(* Python helpers *)

None == <<>>
Some(x) == <<x>>

Min2(x, y) == IF x <= y THEN x ELSE y
Max2(x, y) == IF x >= y THEN x ELSE y

\* b[i:j] of Python (0-based, j exclusive, clipped to the length)
Slice(s, i, j) == SubSeq(s, i + 1, Min2(j, Len(s)))

\* b[i:] of Python
SliceFrom(s, i) == SubSeq(s, i + 1, Len(s))

RECURSIVE from_hex(_)
\* int(b.hex(), base=16): the big-endian value of a non-empty byte string
from_hex(s) ==
    IF Len(s) <= 1 THEN (IF s = <<>> THEN 0 ELSE s[1])
    ELSE from_hex(SubSeq(s, 1, Len(s) - 1)) * 256 + s[Len(s)]

\* int('', 16) raises ValueError
from_hex_raises(s) == s = <<>>

\* safe_get(b, i): b[i], or 0 past the end
safe_get(s, i) == IF i < Len(s) THEN s[i + 1] ELSE 0

\* to_time(value) for value = ticks / 90: None when the quotient is 0.0,
\* otherwise SubRipTime.from_ordinal(int(value)), kept as milliseconds
to_time(ticks) == IF ticks = 0 THEN None ELSE Some(ticks \div 90)

-----------------------------------------------------------------------------
(* Segment framing *)

PDS == 20
ODS == 21
PCS == 22
WDS == 23
END == 128
SegmentType == {PDS, ODS, PCS, WDS, END}

NORMAL_CASE == 0
ACQUISITION_POINT == 64
EPOCH_START == 128
CompositionState == {NORMAL_CASE, ACQUISITION_POINT, EPOCH_START}

LAST == 64
FIRST == 128
FIRST_AND_LAST == 192
ObjectSequenceType == {LAST, FIRST, FIRST_AND_LAST}

HeaderLen == 13
PG == <<80, 71>>

\* BaseSegment accessors: a segment is its bytes
seg_type(s) == s[11]
seg_size(s) == from_hex(Slice(s, 11, 13))
seg_data(s) == SliceFrom(s, 13)
presentation_timestamp(s) == to_time(from_hex(Slice(s, 2, 6)))

-----------------------------------------------------------------------------
(* Segment fields (PresentationCompositionSegment, WindowDefinitionSegment, *)
(* PaletteDefinitionSegment, ObjectDefinitionSegment) and DisplaySet        *)

\* PresentationCompositionSegment.composition_state: CompositionState(data[7])
composition_state(s) == seg_data(s)[8]
\* data[7] raises IndexError on a short payload, CompositionState(v) raises
\* ValueError on a value that is no member
composition_state_raises(s) ==
    \/ Len(seg_data(s)) < 8
    \/ seg_data(s)[8] \notin CompositionState

pcs_is_start(s) == composition_state(s) \in {EPOCH_START, ACQUISITION_POINT}

\* WindowDefinitionSegment.x_offset / y_offset
x_offset(s) == from_hex(Slice(seg_data(s), 2, 4))
y_offset(s) == from_hex(Slice(seg_data(s), 4, 6))
x_offset_raises(s) == from_hex_raises(Slice(seg_data(s), 2, 4))
y_offset_raises(s) == from_hex_raises(Slice(seg_data(s), 4, 6))

Palette(y, cr, cb, alpha) == [y |-> y, cr |-> cr, cb |-> cb, alpha |-> alpha]
PaletteSize == 256

\* [Palette(0, 0, 0, 0)] * 256
BlankPalettes == [k \in 1 .. PaletteSize |-> Palette(0, 0, 0, 0)]

RECURSIVE StoreEntries(_, _, _, _)
\* PaletteDefinitionSegment.__init__, the loop from the given entry on
StoreEntries(pals, d, entry, n) ==
    IF entry >= n THEN pals
    ELSE StoreEntries(
            [pals EXCEPT ![d[2 + entry * 5 + 1] + 1] =
                Palette(d[2 + entry * 5 + 2], d[2 + entry * 5 + 3],
                        d[2 + entry * 5 + 4], d[2 + entry * 5 + 5])],
            d, entry + 1, n)

\* PaletteDefinitionSegment.__init__: 256 entries (0,0,0,0), then every
\* complete 5-byte entry (index, Y, Cr, Cb, alpha) of data[2:] is stored at
\* its index, a later entry overwriting an earlier one.  palettes[c] of the
\* code is seg_palettes(s)[c + 1].
seg_palettes(s) ==
    StoreEntries(BlankPalettes, seg_data(s), 0,
                 Len(SliceFrom(seg_data(s), 2)) \div 5)

\* ObjectDefinitionSegment.img_data
img_data(s) ==
    IF seg_data(s)[4] = LAST THEN SliceFrom(seg_data(s), 4)
    ELSE SliceFrom(seg_data(s), 11)
\* ObjectSequenceType(data[3]) raises on a short payload or an unknown value
img_data_raises(s) ==
    \/ Len(seg_data(s)) < 4
    \/ seg_data(s)[4] \notin ObjectSequenceType

DisplaySet(index, segs) == [index |-> index, segments |-> segs]

OfType(ds, t) == SelectSeq(ds.segments, LAMBDA s : seg_type(s) = t)

\* DisplaySet.pcs / wds: the first one; [..][0] raises IndexError when none
pcs(ds) == OfType(ds, PCS)[1]
pcs_raises(ds) == OfType(ds, PCS) = <<>>
wds(ds) == OfType(ds, WDS)[1]
wds_raises(ds) == OfType(ds, WDS) = <<>>
pds_segments(ds) == OfType(ds, PDS)
ods_segments(ds) == OfType(ds, ODS)

\* DisplaySet.is_start
is_start(ds) == pcs_is_start(pcs(ds))
is_start_raises(ds) == pcs_raises(ds) \/ composition_state_raises(pcs(ds))

-----------------------------------------------------------------------------
(* PgsSubtitleItem *)

RECURSIVE Concat(_)
Concat(ss) == IF ss = <<>> THEN <<>> ELSE Head(ss) \o Concat(Tail(ss))

Map(f(_), s) == [k \in 1 .. Len(s) |-> f(s[k])]

SeqToSet(s) == {s[k] : k \in 1 .. Len(s)}

\* min / max of a non-empty list of optional times: the one element of a
\* singleton; comparing None with a time (or with None) raises TypeError
MinTime(ts) ==
    IF Len(ts) = 1 THEN ts[1]
    ELSE Some(CHOOSE t \in {x[1] : x \in SeqToSet(ts)} :
                  \A x \in SeqToSet(ts) : t <= x[1])
MaxTime(ts) ==
    IF Len(ts) = 1 THEN ts[1]
    ELSE Some(CHOOSE t \in {x[1] : x \in SeqToSet(ts)} :
                  \A x \in SeqToSet(ts) : t >= x[1])
TimesRaise(ts) == Len(ts) > 1 /\ None \in SeqToSet(ts)

MinOf(ns) == CHOOSE n \in SeqToSet(ns) : \A m \in SeqToSet(ns) : n <= m
MaxOf(ns) == CHOOSE n \in SeqToSet(ns) : \A m \in SeqToSet(ns) : n >= m

PgsImage(rle, pals) == [rle_data |-> rle, palettes |-> pals]

\* the index (1-based) of the first start display set, Len + 1 when none
RECURSIVE FirstStart(_, _)
FirstStart(dss, k) ==
    IF k > Len(dss) THEN k
    ELSE IF ~composition_state_raises(pcs(dss[k])) /\ pcs_is_start(pcs(dss[k]))
         THEN k
         ELSE FirstStart(dss, k + 1)

\* PgsSubtitleItem.generate_image: the image of the first start display set
\* of the run (its PDS palettes and its ODS data, concatenated), None when
\* the run has none
generate_image(dss) ==
    LET f == FirstStart(dss, 1)
    IN  IF f > Len(dss) THEN None
        ELSE Some(PgsImage(Concat(Map(img_data, ods_segments(dss[f]))),
                           Concat(Map(seg_palettes, pds_segments(dss[f])))))

\* generate_image raises where ds.pcs.is_start() raises on a display set it
\* reaches, or img_data raises on an ODS of the start display set
generate_image_raises(dss) ==
    LET f == FirstStart(dss, 1)
    IN  \/ \E k \in 1 .. Min2(f, Len(dss)) : composition_state_raises(pcs(dss[k]))
        \/ /\ f <= Len(dss)
           /\ \E k \in 1 .. Len(ods_segments(dss[f])) :
                  img_data_raises(ods_segments(dss[f])[k])

PtsOf(dss) == Map(LAMBDA ds : presentation_timestamp(pcs(ds)), dss)

\* PgsSubtitleItem.__init__
PgsSubtitleItem(index, dss) ==
    [index    |-> index,
     start    |-> MinTime(PtsOf(dss)),
     end      |-> MaxTime(PtsOf(dss)),
     image    |-> generate_image(dss),
     x_offset |-> MinOf(Map(LAMBDA ds : x_offset(wds(ds)), dss)),
     y_offset |-> MinOf(Map(LAMBDA ds : y_offset(wds(ds)), dss)),
     text     |-> None,
     place    |-> None]

PgsSubtitleItem_raises(dss) ==
    \/ \E k \in 1 .. Len(dss) : pcs_raises(dss[k])
    \/ TimesRaise(PtsOf(dss))
    \/ generate_image_raises(dss)
    \/ \E k \in 1 .. Len(dss) :
           wds_raises(dss[k]) \/ x_offset_raises(wds(dss[k]))
                              \/ y_offset_raises(wds(dss[k]))

FixWindow == 10000

\* auto_fix without the max: the end is set just before the next start
auto_fix_no_max(item, next_item) ==
    LET has_image == item.image # None
    IN  IF item.start = None THEN [valid |-> FALSE, item |-> item]
        ELSE IF item.end = None \/ item.end[1] <= item.start[1]
        THEN IF /\ next_item # None /\ next_item[1].start # None
                /\ item.start[1] + FixWindow >= next_item[1].start[1]
             THEN [valid |-> has_image, item |-> [item EXCEPT !.end =
                     Some(next_item[1].start[1] - 1)]]
             ELSE [valid |-> FALSE, item |-> item]
        ELSE [valid |-> has_image, item |-> item]

\* auto_fix with the window open at its far end: a next item that starts
\* exactly FixWindow later does not repair
auto_fix_open_window(item, next_item) ==
    LET has_image == item.image # None
    IN  IF item.start = None THEN [valid |-> FALSE, item |-> item]
        ELSE IF item.end = None \/ item.end[1] <= item.start[1]
        THEN IF /\ next_item # None /\ next_item[1].start # None
                /\ item.start[1] + FixWindow > next_item[1].start[1]
             THEN [valid |-> has_image, item |-> [item EXCEPT !.end =
                     Some(Max2(item.start[1] + 1, next_item[1].start[1] - 1))]]
             ELSE [valid |-> FALSE, item |-> item]
        ELSE [valid |-> has_image, item |-> item]

\* PgsSubtitleItem.auto_fix: whether the item is valid, and the item with
\* its end repaired.  next_item is None or Some(item).
auto_fix(item, next_item) ==
    LET has_image == item.image # None
    IN  IF item.start = None
        THEN [valid |-> FALSE, item |-> item]
        ELSE IF item.end = None \/ item.end[1] <= item.start[1]
        THEN IF /\ next_item # None
                /\ next_item[1].start # None
                /\ item.start[1] + FixWindow >= next_item[1].start[1]
             THEN [valid |-> has_image,
                   item  |-> [item EXCEPT !.end =
                                 Some(Max2(item.start[1] + 1,
                                           next_item[1].start[1] - 1))]]
             ELSE [valid |-> FALSE, item |-> item]
        ELSE [valid |-> has_image, item |-> item]

\* the first loop closing a run after the start display set it meets
RECURSIVE GroupSets_closing_after(_, _, _)
GroupSets_closing_after(dss, k, st) ==
    IF st.raised \/ k > Len(dss) THEN st
    ELSE LET ds == dss[k]
             sets == Append(st.current_sets, ds)
         IN  IF is_start_raises(ds)
             THEN [st EXCEPT !.raised = TRUE]
             ELSE IF is_start(ds)
             THEN IF PgsSubtitleItem_raises(sets)
                  THEN [st EXCEPT !.raised = TRUE]
                  ELSE GroupSets_closing_after(dss, k + 1,
                          [raised       |-> FALSE,
                           candidates   |-> Append(st.candidates,
                                  PgsSubtitleItem(st.index, sets)),
                           runs         |-> Append(st.runs, sets),
                           current_sets |-> <<>>,
                           index        |-> st.index + 1])
             ELSE GroupSets_closing_after(dss, k + 1,
                     [st EXCEPT !.current_sets = sets])

\* create_items, first loop: the state after the display sets dss[k..];
\* runs are the lists of display sets the candidates were built from
RECURSIVE GroupSets(_, _, _)
GroupSets(dss, k, st) ==
    IF st.raised \/ k > Len(dss) THEN st
    ELSE LET ds == dss[k]
         IN  IF st.current_sets # <<>> /\ is_start_raises(ds)
             THEN [st EXCEPT !.raised = TRUE]
             ELSE IF st.current_sets # <<>> /\ is_start(ds)
             THEN IF PgsSubtitleItem_raises(st.current_sets)
                  THEN [st EXCEPT !.raised = TRUE]
                  ELSE GroupSets(dss, k + 1,
                          [raised       |-> FALSE,
                           candidates   |-> Append(st.candidates,
                                  PgsSubtitleItem(st.index, st.current_sets)),
                           runs         |-> Append(st.runs, st.current_sets),
                           current_sets |-> <<ds>>,
                           index        |-> st.index + 1])
             ELSE GroupSets(dss, k + 1,
                     [st EXCEPT !.current_sets = Append(st.current_sets, ds)])

\* create_items up to the candidates list: the loop and the trailing run
Candidates(dss) ==
    LET st == GroupSets(dss, 1, [raised |-> FALSE, candidates |-> <<>>,
                                 runs |-> <<>>,
                                 current_sets |-> <<>>, index |-> 0])
    IN  IF st.raised \/ st.current_sets = <<>> THEN st
        ELSE IF PgsSubtitleItem_raises(st.current_sets)
             THEN [st EXCEPT !.raised = TRUE]
             ELSE [st EXCEPT !.candidates = Append(st.candidates,
                                  PgsSubtitleItem(st.index, st.current_sets)),
                             !.runs = Append(st.runs, st.current_sets),
                             !.current_sets = <<>>]

\* pairwise(candidates): (c1, c2), ..., (cn, None)
NextOf(cands, k) == IF k < Len(cands) THEN Some(cands[k + 1]) ELSE None

RECURSIVE FixAll(_, _)
\* create_items, second loop: the items auto_fix keeps, from candidate k on
FixAll(cands, k) ==
    IF k > Len(cands) THEN <<>>
    ELSE LET r == auto_fix(cands[k], NextOf(cands, k))
         IN  (IF r.valid THEN <<r.item>> ELSE <<>>) \o FixAll(cands, k + 1)

\* PgsSubtitleItem.create_items: the items, or raised where an exception
\* leaves the call
create_items(dss) ==
    LET st == Candidates(dss)
    IN  IF st.raised THEN [raised |-> TRUE, items |-> <<>>]
        ELSE [raised |-> FALSE, items |-> FixAll(st.candidates, 1)]

-----------------------------------------------------------------------------
(* Input streams: encoders used to draw the inputs *)

U16(n) == <<n \div 256, n % 256>>
U32(n) == <<n \div 16777216, (n \div 65536) % 256, (n \div 256) % 256, n % 256>>

\* one framed segment: magic, PTS, DTS, tag, payload size, payload
Segment(pts, tag, payload) ==
    PG \o U32(pts) \o U32(pts) \o <<tag>> \o U16(Len(payload)) \o payload

\* payloads: screen 1920x1080, one composition object / one window /
\* palette entries / an object with its RLE bytes
PcsSeg(pts, state) ==
    Segment(pts, PCS, U16(1920) \o U16(1080) \o <<16>> \o U16(1)
                      \o <<state, 0, 0, 1>>)
WdsSeg(pts, x, y) ==
    Segment(pts, WDS, <<1, 0>> \o U16(x) \o U16(y) \o U16(8) \o U16(4))
PdsSeg(pts, entries) == Segment(pts, PDS, <<0, 0>> \o entries)
OdsSeg(pts, seq, rle) ==
    Segment(pts, ODS, U16(0) \o <<0, seq>>
                      \o (IF seq = LAST THEN <<>>
                          ELSE <<0, 0, Len(rle) + 4>> \o U16(2) \o U16(1))
                      \o rle)
EndSeg(pts) == Segment(pts, END, <<>>)
UnknownSeg(pts) == Segment(pts, 0, <<1, 2>>)

\* palette entries: index 0 dark (Y 16), index 1 bright (Y 235)
TwoEntries == <<0, 16, 128, 128, 0, 1, 235, 128, 128, 255>>
\* a 2x1 bitmap: two pixels of colour 1, end of line
TwoPixels == <<1, 1, 0, 0>>

\* the units a reader input is made of, each a list of segments
ReaderUnits == {"epoch", "normal", "no_pcs", "no_wds", "unknown", "end_only"}

Unit(kind, pts) ==
    CASE kind = "epoch" ->
           <<PcsSeg(pts, EPOCH_START), WdsSeg(pts, 10, 20),
             PdsSeg(pts, TwoEntries), OdsSeg(pts, FIRST_AND_LAST, TwoPixels),
             EndSeg(pts)>>
      [] kind = "acquisition" ->
           <<PcsSeg(pts, ACQUISITION_POINT), WdsSeg(pts, 30, 40), EndSeg(pts)>>
      [] kind = "normal" ->
           <<PcsSeg(pts, NORMAL_CASE), WdsSeg(pts, 10, 20), EndSeg(pts)>>
      [] kind = "no_pcs" -> <<WdsSeg(pts, 10, 20), EndSeg(pts)>>
      [] kind = "no_wds" -> <<PcsSeg(pts, EPOCH_START), EndSeg(pts)>>
      [] kind = "two_ods" ->
           <<PcsSeg(pts, EPOCH_START), WdsSeg(pts, 10, 20),
             PdsSeg(pts, TwoEntries), OdsSeg(pts, FIRST, <<1, 1>>),
             OdsSeg(pts, LAST, <<0, 0>>), EndSeg(pts)>>
      [] kind = "unknown" -> <<UnknownSeg(pts)>>
      [] kind = "end_only" -> <<EndSeg(pts)>>

\* the k-th unit of a stream is presented at k seconds
TicksPerSecond == 90 * 1000

MaxUnits == 2

UnitSeqs == UNION {[1 .. n -> ReaderUnits] : n \in 0 .. MaxUnits}

StreamOf(us) == Concat([k \in 1 .. Len(us) |-> Unit(us[k], k * TicksPerSecond)])

\* the streams, each with the prefixes that keep all units but the last
\* whole and cut the last one anywhere
ReaderInputs ==
    {[stream |-> StreamOf(us), data |-> SubSeq(Concat(StreamOf(us)), 1, n)] :
        us \in {<<>>}, n \in {0}}
    \cup UNION {
       LET whole == Concat(StreamOf(us))
           kept  == Len(Concat(StreamOf(SubSeq(us, 1, Len(us) - 1))))
       IN  {[stream |-> StreamOf(us), data |-> SubSeq(whole, 1, n)] :
               n \in kept + 1 .. Len(whole)}
       : us \in UnitSeqs \ {<<>>}}

-----------------------------------------------------------------------------
(* The parts of the state a specification does not run stay as constructed *)

ReaderIdle ==
    /\ stream = <<>>
    /\ data = <<>>
    /\ b = <<>>
    /\ yielded = <<>>
    /\ segments = <<>>
    /\ display_sets = <<>>
    /\ rpc = "idle"
    /\ items = <<>>

RleIdle ==
    /\ rle_data = <<>>
    /\ palettes = <<>>
    /\ binary = TRUE
    /\ pos = 0
    /\ image_array = <<>>
    /\ alpha_array = <<>>
    /\ cols = 1
    /\ rle_pc = "idle"
    /\ image = None

MosaicIdle ==
    /\ m_items = <<>>
    /\ m_gap = <<0, 0>>
    /\ m_max_width = 0
    /\ m_pc = "idle"
    /\ m_areas = <<>>
    /\ full_image = None

RipIdle ==
    /\ pgs_items = <<>>
    /\ options = None
    /\ ocr = None
    /\ ripper = None
    /\ rip_items = <<>>
    /\ subs = <<>>
    /\ confidence = 0
    /\ max_width = 0
    /\ previous_size = 0
    /\ calls = <<>>
    /\ rip_pc = "idle"

PathIdle ==
    /\ mp_objs = <<>>
    /\ mp_calls = <<>>

MkvIdle ==
    /\ mkv_tracks = <<>>
    /\ mkv_options = None
    /\ mkv_sorted = <<>>
    /\ mkv_pos = 0
    /\ mkv_out = <<>>
    /\ mkv_pc = "idle"

BatchIdle ==
    /\ b_sources = <<>>
    /\ b_options = None
    /\ fs_srt = <<>>
    /\ fs_temp = {}
    /\ scanned = 0
    /\ collected = <<>>
    /\ results = <<>>
    /\ ripped_count = 0
    /\ b_pc = "idle"

TsvIdle ==
    /\ t_rows = <<>>
    /\ t_conf = 0
    /\ t_item = <<>>
    /\ t_data = <<>>
    /\ t_result = <<>>
    /\ t_pc = "idle"

OrchIdle == PathIdle /\ MkvIdle /\ BatchIdle /\ TsvIdle

-----------------------------------------------------------------------------
(* PgsReader.read_segments, PgsReader.decode, Pgs.decode *)

InitReader ==
    /\ \E inp \in ReaderInputs :
          /\ stream = inp.stream
          /\ data = inp.data
    /\ b = data
    /\ yielded = <<>>
    /\ segments = <<>>
    /\ display_sets = <<>>
    /\ rpc = "read"
    /\ items = <<>>
    /\ RleIdle
    /\ MosaicIdle
    /\ RipIdle
    /\ OrchIdle

\* read_segments: b[:2] != b'PG', warn and break
ReadInvalidMagic ==
    /\ rpc = "read"
    /\ b # <<>>
    /\ Slice(b, 0, 2) # PG
    /\ rpc' = "stopped"
    /\ UNCHANGED <<stream, data, b, yielded, segments, display_sets, items, orchVars, rleVars, mosaicVars,
                   ripVars>>

\* read_segments: fewer than 13 bytes left, warn and break
ReadShortHeader ==
    /\ rpc = "read"
    /\ b # <<>>
    /\ Slice(b, 0, 2) = PG
    /\ Len(b) < HeaderLen
    /\ rpc' = "stopped"
    /\ UNCHANGED <<stream, data, b, yielded, segments, display_sets, items, orchVars, rleVars, mosaicVars,
                   ripVars>>

\* read_segments: SegmentType(b[10]) raises ValueError on a tag that is no
\* member; the exception leaves the generators and Pgs.decode
ReadUnknownTag ==
    /\ rpc = "read"
    /\ b # <<>>
    /\ Slice(b, 0, 2) = PG
    /\ Len(b) >= HeaderLen
    /\ b[11] \notin SegmentType
    /\ rpc' = "raised"
    /\ UNCHANGED <<stream, data, b, yielded, segments, display_sets, items, orchVars, rleVars, mosaicVars,
                   ripVars>>

\* the body of decode without segments = []
DecodeSegment_keeping_segments(s) ==
    IF seg_type(s) = END
    THEN /\ display_sets' = Append(display_sets,
                                DisplaySet(Len(display_sets), Append(segments, s)))
         /\ segments' = Append(segments, s)
    ELSE /\ segments' = Append(segments, s)
         /\ UNCHANGED display_sets

\* PgsReader.decode, the body run for a yielded segment s
DecodeSegment(s) ==
    IF seg_type(s) = END
    THEN /\ display_sets' = Append(display_sets,
                                DisplaySet(Len(display_sets), Append(segments, s)))
         /\ segments' = <<>>
    ELSE /\ segments' = Append(segments, s)
         /\ UNCHANGED display_sets

\* the segment read_segments yields and the bytes it leaves
ReadSize(buf) == HeaderLen + from_hex(Slice(buf, 11, 13))
ReadOne(buf) == Slice(buf, 0, ReadSize(buf))
ReadRest(buf) == SliceFrom(buf, ReadSize(buf))

\* read_segments: yield segment_type(b[:size]) and advance; the consumer
\* (PgsReader.decode, driven by list() in Pgs.decode) takes the segment
ReadYield ==
    /\ rpc = "read"
    /\ b # <<>>
    /\ Slice(b, 0, 2) = PG
    /\ Len(b) >= HeaderLen
    /\ b[11] \in SegmentType
    /\ yielded' = Append(yielded, ReadOne(b))
    /\ DecodeSegment(ReadOne(b))
    /\ b' = ReadRest(b)
    /\ UNCHANGED <<stream, data, rpc, items, orchVars, rleVars, mosaicVars,
                   ripVars>>

\* read_segments: while b: ends on the empty buffer
ReadExhausted ==
    /\ rpc = "read"
    /\ b = <<>>
    /\ rpc' = "stopped"
    /\ UNCHANGED <<stream, data, b, yielded, segments, display_sets, items, orchVars, rleVars, mosaicVars,
                   ripVars>>

\* Pgs.decode: the display sets are complete, create_items builds the items
PgsDecode ==
    /\ rpc = "stopped"
    /\ LET r == create_items(display_sets)
       IN  /\ rpc' = IF r.raised THEN "raised" ELSE "done"
           /\ items' = r.items
    /\ UNCHANGED <<stream, data, b, yielded, segments, display_sets, orchVars, rleVars,
                   mosaicVars, ripVars>>

NextReader ==
    \/ ReadInvalidMagic
    \/ ReadShortHeader
    \/ ReadUnknownTag
    \/ ReadYield
    \/ ReadExhausted
    \/ PgsDecode

SpecReader == InitReader /\ [][NextReader]_vars

-----------------------------------------------------------------------------
(* Claims on the reader *)

\* every segment of the stream S carries one of the five known tags
ValidStream == \A k \in 1 .. Len(stream) : seg_type(stream[k]) \in SegmentType

RECURSIVE Contained(_, _)
\* the leading segments of segs that lie whole in the first n bytes
Contained(segs, n) ==
    IF segs = <<>> \/ Len(Head(segs)) > n THEN <<>>
    ELSE <<Head(segs)>> \o Contained(Tail(segs), n - Len(Head(segs)))

\* C1: read_segments is prefix-stable: once it has finished on a prefix P
\* of a valid stream S, the segments it yielded are exactly the segments of
\* S that lie whole in P, with nothing yielded for a partial tail.
C1_PrefixStable ==
    (ValidStream /\ rpc # "read") => yielded = Contained(stream, Len(data))

\* the bytes of data that follow the whole segments before segment k
OffsetOf(k) == Len(Concat(SubSeq(stream, 1, k - 1)))

\* read_segments has met a segment with an unknown tag: its header lies in
\* data and every segment before it has a known tag
UnknownMet ==
    \E k \in 1 .. Len(stream) :
       /\ seg_type(stream[k]) \notin SegmentType
       /\ OffsetOf(k) + HeaderLen <= Len(data)
       /\ \A j \in 1 .. k - 1 : seg_type(stream[j]) \in SegmentType

\* C2: a segment with an unknown tag stops the parsing without failing the
\* source: the display sets emitted before it go to the item builder, and
\* where the builder accepts them Pgs.decode returns their items.
C2_UnknownTagKeepsEarlier ==
    (UnknownMet /\ rpc # "read" /\ ~create_items(display_sets).raised)
        => /\ rpc # "raised"
           /\ rpc = "done" => items = create_items(display_sets).items

-----------------------------------------------------------------------------
(* The item builder on whole streams: Pgs.decode once every display set of  *)
(* the stream has been read                                                 *)

\* presentation times in ticks: 0 (no time), 1000 ms, 11000 ms, 11001 ms
PtsChoices == {0, 90000, 990000, 990090}

SetKinds == {"epoch", "normal"}

SetOf(kind, pts) ==
    CASE kind = "epoch" ->
           <<PcsSeg(pts, EPOCH_START), WdsSeg(pts, 10, 20),
             PdsSeg(pts, TwoEntries), OdsSeg(pts, FIRST_AND_LAST, TwoPixels),
             EndSeg(pts)>>
      [] kind = "acquisition" ->
           <<PcsSeg(pts, ACQUISITION_POINT), WdsSeg(pts, 30, 40),
             OdsSeg(pts, FIRST, <<1, 1>>), OdsSeg(pts, LAST, <<0, 0>>),
             EndSeg(pts)>>
      [] kind = "normal" ->
           <<PcsSeg(pts, NORMAL_CASE), WdsSeg(pts, 10, 20), EndSeg(pts)>>

MaxSets == 3

\* a display set of either kind at any of the times, or an acquisition
\* point at the second of them
SetChoices ==
    [kind : SetKinds, pts : PtsChoices]
        \cup {[kind |-> "acquisition", pts |-> TicksPerSecond]}

SetSeqs == UNION {[1 .. n -> SetChoices] : n \in 0 .. MaxSets}

SetsOf(cs) == [k \in 1 .. Len(cs) |-> SetOf(cs[k].kind, cs[k].pts)]

\* the state of Pgs.decode after read_segments has consumed a whole stream
\* of complete display sets
InitItems ==
    /\ \E cs \in SetSeqs :
          /\ stream = Concat(SetsOf(cs))
          /\ display_sets = [k \in 1 .. Len(cs) |-> DisplaySet(k - 1, SetsOf(cs)[k])]
    /\ data = Concat(stream)
    /\ b = <<>>
    /\ yielded = stream
    /\ segments = <<>>
    /\ rpc = "stopped"
    /\ items = <<>>
    /\ RleIdle
    /\ MosaicIdle
    /\ RipIdle
    /\ OrchIdle

NextItems == PgsDecode

SpecItems == InitItems /\ [][NextItems]_vars

-----------------------------------------------------------------------------
(* Claims on the item builder *)

\* the candidates create_items built from the display sets
Cands == Candidates(display_sets).candidates

\* the item create_items returned for candidate c, if any
Kept(c) == \E m \in 1 .. Len(items) : items[m].index = c.index
KeptItem(c) == items[CHOOSE m \in 1 .. Len(items) : items[m].index = c.index]

\* C4: every item create_items returns has a start and an end, end > start.
C4_EndAfterStart ==
    rpc = "done" =>
        \A m \in 1 .. Len(items) :
           /\ items[m].start # None
           /\ items[m].end # None
           /\ items[m].end[1] > items[m].start[1]

\* an item with a start whose end is missing or not after the start
NeedsFix(c) == c.start # None /\ (c.end = None \/ c.end[1] <= c.start[1])

\* candidate k of cs has a follower that has a start, at most 10000 ms
\* after the start of candidate k
FollowerNear(cs, k) ==
    /\ k < Len(cs)
    /\ cs[k + 1].start # None
    /\ cs[k + 1].start[1] - cs[k].start[1] <= 10000

\* the timing rule of the claim for candidate k of cs
TimingRule(cs, k) ==
    LET c == cs[k]
    IN  /\ NeedsFix(c) =>
            IF FollowerNear(cs, k)
            THEN /\ Kept(c)
                 /\ KeptItem(c).end =
                       Some(Max2(c.start[1] + 1, cs[k + 1].start[1] - 1))
            ELSE ~Kept(c)
        /\ (c.start # None /\ ~NeedsFix(c)) =>
               Kept(c) /\ KeptItem(c).end = c.end

\* C5 as stated: the timing rule decides for every candidate whether it is
\* kept and with which end.
C5_TimingRepairAll ==
    rpc = "done" =>
        LET cs == Cands IN \A k \in 1 .. Len(cs) : TimingRule(cs, k)

\* C5 as amended: the timing rule holds for every candidate that has an
\* image; a candidate without an image is dropped.
C5_TimingRepair ==
    rpc = "done" =>
        LET cs == Cands
        IN  \A k \in 1 .. Len(cs) :
               IF cs[k].image # None THEN TimingRule(cs, k) ELSE ~Kept(cs[k])

\* an item whose end was not after its start is returned, repaired to one
\* millisecond after its start
C4_Witness ==
    /\ rpc = "done"
    /\ LET cs == Cands
       IN  \E k \in 1 .. Len(cs) :
              /\ NeedsFix(cs[k])
              /\ Kept(cs[k])
              /\ KeptItem(cs[k]).end[1] = cs[k].start[1] + 1

\* one candidate repaired at the 10000 ms boundary and kept, and another
\* one in need of repair dropped
C5_Witness ==
    /\ rpc = "done"
    /\ LET cs == Cands
       IN  /\ \E k \in 1 .. Len(cs) :
                 /\ NeedsFix(cs[k])
                 /\ FollowerNear(cs, k)
                 /\ cs[k + 1].start[1] - cs[k].start[1] = 10000
                 /\ Kept(cs[k])
           /\ \E k \in 1 .. Len(cs) : NeedsFix(cs[k]) /\ ~Kept(cs[k])

-----------------------------------------------------------------------------
(* PgsImage.decode_rle_image *)

\* decode_rle_position with the two-byte form taken up to 64 included
decode_rle_position_short_at_64(d, i) ==
    LET first  == safe_get(d, i)
        second == safe_get(d, i + 1)
        third  == safe_get(d, i + 2)
        fourth == safe_get(d, i + 3)
        Run(length, color, count) ==
            [length |-> length, color |-> color, count |-> count]
    IN  IF first # 0 THEN Run(1, first, 1)
        ELSE IF second <= 64 THEN Run(second, 0, 2)
        ELSE IF second < 128 THEN Run((second - 64) * 256 + third, 0, 3)
        ELSE IF second < 192 THEN Run(second - 128, third, 3)
        ELSE Run((second - 192) * 256 + third, fourth, 4)

\* PgsImage.decode_rle_position: the run at position i
decode_rle_position(d, i) ==
    LET first  == safe_get(d, i)
        second == safe_get(d, i + 1)
        third  == safe_get(d, i + 2)
        fourth == safe_get(d, i + 3)
        Run(length, color, count) ==
            [length |-> length, color |-> color, count |-> count]
    IN  IF first # 0 THEN Run(1, first, 1)
        ELSE IF second < 64 THEN Run(second, 0, 2)
        ELSE IF second < 128 THEN Run((second - 64) * 256 + third, 0, 3)
        ELSE IF second < 192 THEN Run(second - 128, third, 3)
        ELSE Run((second - 192) * 256 + third, fourth, 4)

\* get_color with the two binary values exchanged
get_color_bright_is_255(palette, bin) ==
    IF bin THEN (IF palette.y > 127 THEN <<255>> ELSE <<0>>)
    ELSE <<palette.y, palette.cr, palette.cb>>

\* PgsImage.get_color
get_color(palette, bin) ==
    IF bin THEN (IF palette.y > 127 THEN <<0>> ELSE <<255>>)
    ELSE <<palette.y, palette.cr, palette.cb>>

\* s * n of Python
Repeat(s, n) == [k \in 1 .. n * Len(s) |-> s[((k - 1) % Len(s)) + 1]]

Dimension(bin) == IF bin THEN 1 ELSE 3

\* the run the loop decodes next
CurrentRun == decode_rle_position(rle_data, pos)

\* the loop body: a run whose colour the palette list holds
RleRun ==
    /\ rle_pc = "loop"
    /\ pos < Len(rle_data)
    /\ CurrentRun.color < Len(palettes)
    /\ LET run     == CurrentRun
           palette == palettes[run.color + 1]
       IN  /\ cols' = IF run.length = 0 /\ cols < 2
                      THEN Len(image_array) \div Dimension(binary)
                      ELSE cols
           /\ image_array' =
                 image_array \o Repeat(get_color(palette, binary), run.length)
           /\ alpha_array' =
                 IF binary THEN alpha_array
                 ELSE alpha_array \o Repeat(<<palette.alpha>>, run.length)
           /\ pos' = pos + run.count
    /\ UNCHANGED <<rle_data, palettes, binary, rle_pc, image, orchVars, readerVars, mosaicVars, ripVars>>

\* the loop body: palettes[color] raises IndexError, after cols was set
RleBadColor ==
    /\ rle_pc = "loop"
    /\ pos < Len(rle_data)
    /\ CurrentRun.color >= Len(palettes)
    /\ cols' = IF CurrentRun.length = 0 /\ cols < 2
               THEN Len(image_array) \div Dimension(binary)
               ELSE cols
    /\ rle_pc' = "raised"
    /\ UNCHANGED <<rle_data, palettes, binary, pos, image_array, alpha_array,
                   image, orchVars, readerVars, mosaicVars, ripVars>>

\* rows = (len(image_array) // dimension + cols - 1) // cols
Rows == (Len(image_array) \div Dimension(binary) + cols - 1) \div cols

\* delta = cols * rows * dimension - len(image_array)
Delta == cols * Rows * Dimension(binary) - Len(image_array)

\* the elements after the padding: (get_color(palettes[0]) * dimension) * delta
Padded ==
    IF Delta = 0 THEN image_array
    ELSE image_array \o
         Repeat(Repeat(get_color(palettes[1], binary), Dimension(binary)), Delta)

\* the code after the loop raises: ZeroDivisionError in rows for cols = 0;
\* IndexError in palettes[0] when padding with no palette; ValueError in
\* reshape when the element count is not rows * cols * dimension (image) or
\* rows * cols (alpha); cv2.error in cvtColor on an image with no pixel
FinishRaises ==
    IF cols = 0 THEN TRUE
    ELSE IF Delta # 0 /\ palettes = <<>> THEN TRUE
    ELSE IF Len(Padded) # Rows * cols * Dimension(binary) THEN TRUE
    ELSE ~binary /\ (Len(alpha_array) # Rows * cols \/ Rows * cols = 0)

\* cv2.cvtColor(image, COLOR_YCR_CB2BGR) on one pixel, in the fixed-point
\* arithmetic of the 8-bit conversion (coefficients scaled by 2^14)
Saturate(v) == IF v < 0 THEN 0 ELSE IF v > 255 THEN 255 ELSE v
Descale(v) == (v + 8192) \div 16384
YCrCbToBGR(y, cr, cb) ==
    <<Saturate(y + Descale(29049 * (cb - 128))),
      Saturate(y + Descale((-11698) * (cr - 128) + (-5636) * (cb - 128))),
      Saturate(y + Descale(22987 * (cr - 128)))>>

\* the image returned: (rows, cols) in binary mode, (rows, cols, 4) BGRA
\* otherwise
Reshaped ==
    IF binary
    THEN [shape |-> <<Rows, cols>>, elements |-> Padded]
    ELSE [shape |-> <<Rows, cols, 4>>,
          elements |-> [k \in 1 .. 4 * Rows * cols |->
              LET p == ((k - 1) \div 4) + 1
                  c == ((k - 1) % 4) + 1
              IN  IF c = 4 THEN alpha_array[p]
                  ELSE YCrCbToBGR(Padded[3 * p - 2], Padded[3 * p - 1],
                                  Padded[3 * p])[c]]]

\* after the loop: pad, reshape, convert, return
RleFinish ==
    /\ rle_pc = "loop"
    /\ pos >= Len(rle_data)
    /\ ~FinishRaises
    /\ image_array' = Padded
    /\ image' = Some(Reshaped)
    /\ rle_pc' = "done"
    /\ UNCHANGED <<rle_data, palettes, binary, pos, alpha_array, cols, orchVars, readerVars, mosaicVars, ripVars>>

\* after the loop: an exception leaves decode_rle_image
RleFinishRaises ==
    /\ rle_pc = "loop"
    /\ pos >= Len(rle_data)
    /\ FinishRaises
    /\ rle_pc' = "raised"
    /\ UNCHANGED <<rle_data, palettes, binary, pos, image_array, alpha_array,
                   cols, image, orchVars, readerVars, mosaicVars, ripVars>>

\* the bytes the inputs are made of: 0, colours 1 and 2, one second byte
\* of each of the three long forms, and 65, a second byte whose length has
\* a high part
RleBytes == {0, 1, 2, 64, 65, 129, 192}

MaxRle == 4

RleInputs == UNION {[1 .. n -> RleBytes] : n \in 0 .. MaxRle}

\* the palette lists: none (a display set without PDS), and the 256
\* entries of one PDS
PaletteLists == {<<>>, seg_palettes(PdsSeg(0, TwoEntries))}

InitRle ==
    /\ rle_data \in RleInputs
    /\ palettes \in PaletteLists
    /\ binary \in BOOLEAN
    /\ pos = 0
    /\ image_array = <<>>
    /\ alpha_array = <<>>
    /\ cols = 1
    /\ rle_pc = "loop"
    /\ image = None
    /\ ReaderIdle
    /\ MosaicIdle
    /\ RipIdle
    /\ OrchIdle

NextRle ==
    \/ RleRun
    \/ RleBadColor
    \/ RleFinish
    \/ RleFinishRaises

SpecRle == InitRle /\ [][NextRle]_vars

-----------------------------------------------------------------------------
(* Claims on the RLE decoder *)

\* C3: decode_rle_image never raises, and the image it returns has
\* rows * cols * dimension elements after the padding, cols to a row.
\* Stated for the binary mode and the palette list of a PDS, the call the
\* ripper makes.
C3_NeverRaises ==
    (binary /\ palettes # <<>>) =>
        /\ rle_pc # "raised"
        /\ rle_pc = "done" =>
              /\ image[1].shape[2] = cols
              /\ Len(image_array) =
                    image[1].shape[1] * image[1].shape[2] * Dimension(binary)

RECURSIVE BitOr(_, _)
\* a | b on non-negative integers
BitOr(a, x) ==
    IF a = 0 THEN x
    ELSE IF x = 0 THEN a
    ELSE (IF a % 2 = 1 \/ x % 2 = 1 THEN 1 ELSE 0) + 2 * BitOr(a \div 2, x \div 2)

\* the byte k places after position i of the data, 0 past the end
ByteAfter(i, k) == IF i + k < Len(rle_data) THEN rle_data[i + k + 1] ELSE 0

\* the run table of the PGS run-length format at position i of the data
RunTable(i) ==
    LET L == ByteAfter(i, 0)
        s == ByteAfter(i, 1)
        x == ByteAfter(i, 2)
    IN  IF L # 0 THEN <<1, L, 1>>
        ELSE IF s \in 0 .. 63 THEN <<s, 0, 2>>
        ELSE IF s \in 64 .. 127 THEN <<BitOr((s - 64) * 256, x), 0, 3>>
        ELSE IF s \in 128 .. 191 THEN <<s - 128, x, 3>>
        ELSE <<BitOr((s - 192) * 256, x), ByteAfter(i, 3), 4>>

\* C21: at every position of the data, the last one and the position just
\* past the end included, decode_rle_position returns the length, colour
\* and byte count of the run table, a byte past the end counting as 0.
C21_RunTable ==
    rle_pc # "idle" =>
        \A i \in 0 .. Len(rle_data) :
            LET run == decode_rle_position(rle_data, i)
            IN  <<run.length, run.color, run.count>> = RunTable(i)

\* a four-byte run of colour 1 cut short was decoded: its colour byte was
\* read past the end of the data, and the image was returned
C21_Witness ==
    /\ rle_pc = "done"
    /\ Len(rle_data) = 3
    /\ rle_data[1] = 0
    /\ rle_data[2] = 192
    /\ rle_data[3] = 2
    /\ pos = 4
    /\ Len(image_array) = 2

RECURSIVE Decoded(_, _, _)
\* the runs the loop has decoded from position i up to position stop
Decoded(d, i, stop) ==
    IF i >= stop THEN <<>>
    ELSE <<decode_rle_position(d, i)>>
         \o Decoded(d, i + decode_rle_position(d, i).count, stop)

\* the (0, 0) end-of-line marker
IsMarker(run) == run.length = 0 /\ run.color = 0 /\ run.count = 2

RECURSIVE ColoursOf(_)
\* the colour index of each pixel the runs emit, in order
ColoursOf(runs) ==
    IF runs = <<>> THEN <<>>
    ELSE [k \in 1 .. runs[1].length |-> runs[1].color] \o ColoursOf(Tail(runs))

\* C22: once the loop has decoded a (0, 0) end-of-line marker, the column
\* count is the number of pixels emitted before the first marker, whatever
\* runs and markers were decoded after it.
C22_ColsFixedByFirstMarker ==
    rle_pc \in {"loop", "done"} =>
        LET runs == Decoded(rle_data, 0, pos)
        IN  \A m \in 1 .. Len(runs) :
                (IsMarker(runs[m]) /\ \A k \in 1 .. m - 1 : ~IsMarker(runs[k]))
                    => cols = Len(ColoursOf(SubSeq(runs, 1, m - 1)))

\* the pixels decoded so far, each with its palette entry
DecodedColours == ColoursOf(Decoded(rle_data, 0, pos))

\* C23 as stated: in binary mode a decoded pixel is 255 where the Y of its
\* palette entry is > 127 and 0 otherwise.
C23_BrightIs255 ==
    (binary /\ rle_pc \in {"loop", "done"}) =>
        \A k \in 1 .. Len(DecodedColours) :
            image_array[k] =
                IF palettes[DecodedColours[k] + 1].y > 127 THEN 255 ELSE 0

\* C23: in binary mode a decoded pixel is 0 where the Y of its palette entry
\* is > 127 and 255 otherwise (bright text becomes dark ink on white).
C23_BrightIs0 ==
    (binary /\ rle_pc \in {"loop", "done"}) =>
        /\ Len(image_array) >= Len(DecodedColours)
        /\ \A k \in 1 .. Len(DecodedColours) :
              image_array[k] =
                  IF palettes[DecodedColours[k] + 1].y > 127 THEN 0 ELSE 255

\* a binary image was returned with a pixel of the bright entry and a pixel
\* of the dark entry
C23_Witness ==
    /\ binary
    /\ rle_pc = "done"
    /\ \E k \in 1 .. Len(DecodedColours) :
          palettes[DecodedColours[k] + 1].y > 127 /\ image_array[k] = 0
    /\ \E k \in 1 .. Len(DecodedColours) :
          palettes[DecodedColours[k] + 1].y <= 127 /\ image_array[k] = 255

-----------------------------------------------------------------------------
(* Mosaic layout: ImageArea and FullImage *)

\* an item as the ripper sees it: height and width are the shape of its
\* decoded image
Item(index, start, end, height, width, x, y) ==
    [index |-> index, start |-> start, end |-> end, height |-> height,
     width |-> width, x_offset |-> x, y_offset |-> y,
     text |-> None, place |-> None]

\* PgsSubtitleItem.shape: (top, left, bottom, right)
shape(item) ==
    <<item.y_offset, item.x_offset,
      item.y_offset + item.height, item.x_offset + item.width>>

\* PgsSubtitleItem.h_center
h_center(item) == shape(item)[1] + (shape(item)[3] - shape(item)[1]) \div 2

\* PgsSubtitleItem.intersect
intersect(self, item) ==
    shape(self)[1] <= h_center(item) /\ h_center(item) <= shape(self)[3]

RECURSIVE Sum(_)
Sum(ns) == IF ns = <<>> THEN 0 ELSE Head(ns) + Sum(Tail(ns))

RECURSIVE InsertByHeight(_, _)
\* x put after the last element of the sorted list s that is not higher
InsertByHeight(s, x) ==
    IF s = <<>> THEN <<x>>
    ELSE IF s[Len(s)].height <= x.height THEN Append(s, x)
         ELSE Append(InsertByHeight(SubSeq(s, 1, Len(s) - 1), x), s[Len(s)])

RECURSIVE SortByHeight(_)
\* remaining.sort(key=lambda x: x.height): stable, ascending
SortByHeight(s) ==
    IF s = <<>> THEN <<>>
    ELSE InsertByHeight(SortByHeight(SubSeq(s, 1, Len(s) - 1)), s[Len(s)])

\* ImageArea.__init__
ImageArea(its, gap) ==
    LET width == Sum(Map(LAMBDA i : shape(i)[4] - shape(i)[2], its))
                    + (Len(its) - 1) * gap[2]
    IN  [gap   |-> gap,
         width |-> width,
         shape |-> <<MinOf(Map(LAMBDA i : shape(i)[1], its)),
                     shape(its[1])[2],
                     MaxOf(Map(LAMBDA i : shape(i)[3], its)),
                     MinOf(Map(LAMBDA i : shape(i)[2], its)) + width>>,
         items |-> its]
\* min([]) raises ValueError
ImageArea_raises(its) == its = <<>>

\* ImageArea.height
area_height(area) == area.shape[3] - area.shape[1]

\* get_shape that forgets the width already taken in the area
get_shape_at_left(area, item, current_width) ==
    LET h_start == item.y_offset - area.shape[1]
    IN  <<h_start, 0, h_start + item.height, item.width>>

\* ImageArea.get_shape with full_shape=False
get_shape(area, item, current_width) ==
    LET h_start == item.y_offset - area.shape[1]
        w_start == current_width
    IN  <<h_start, w_start, h_start + item.height, w_start + item.width>>

\* the current_width create_area_image has reached before its k-th item
WidthBefore(area, k) ==
    Sum([j \in 1 .. k - 1 |-> area.items[j].width + area.gap[2]])

\* ImageArea.create_area_image: the items of the area with their place
create_area_image(area, start) ==
    [k \in 1 .. Len(area.items) |->
        LET sh == get_shape(area, area.items[k], WidthBefore(area, k))
        IN  [area.items[k] EXCEPT !.place =
                Some(<<start[1] + sh[1], start[2] + sh[2],
                       start[1] + sh[3], start[2] + sh[4]>>)]]

Border == 100

\* the h_start FullImage.__init__ has reached before its k-th area
HeightBefore(areas, gap, k) ==
    Border + Sum([j \in 1 .. k - 1 |-> area_height(areas[j]) + gap[1]])

\* FullImage.__init__: the shape of the image and the items placed
FullImage(areas, gap) ==
    [shape |-> <<Sum(Map(area_height, areas)) + (Len(areas) - 1) * gap[1]
                     + 2 * Border,
                 MaxOf(Map(LAMBDA a : a.width, areas)) + 2 * Border>>,
     placed |-> Concat([k \in 1 .. Len(areas) |->
                   create_area_image(areas[k],
                                     <<HeightBefore(areas, gap, k), Border>>)])]
\* max([]) raises ValueError
FullImage_raises(areas) == areas = <<>>

RECURSIVE PackAreas(_, _, _, _, _, _)
\* from_items, the for loop over area_items from position k on: the areas
\* closed so far (acc), the items and the width of the open one
PackAreas(area_items, k, gap, width_limit, acc, cur) ==
    IF k > Len(area_items) THEN [raised |-> FALSE, areas |-> acc, cur |-> cur]
    ELSE IF cur.width + area_items[k].width + gap[2] > width_limit
         THEN IF ImageArea_raises(cur.items)
              THEN [raised |-> TRUE, areas |-> acc, cur |-> cur]
              ELSE PackAreas(area_items, k + 1, gap, width_limit,
                             Append(acc, ImageArea(cur.items, gap)),
                             [items |-> <<area_items[k]>>,
                              width |-> area_items[k].width])
         ELSE PackAreas(area_items, k + 1, gap, width_limit, acc,
                        [items |-> Append(cur.items, area_items[k]),
                         width |-> cur.width + area_items[k].width + gap[2]])

\* from_items, after the for loop: the open area is closed if it has items
CloseArea(packed, gap) ==
    IF packed.cur.items # <<>>
    THEN Append(packed.areas, ImageArea(packed.cur.items, gap))
    ELSE packed.areas

RECURSIVE FormAreas(_, _, _, _)
RECURSIVE FormNext(_, _, _, _)
\* from_items, the while loop: the areas made of the remaining items
FormAreas(remaining, gap, width_limit, acc) ==
    IF remaining = <<>> THEN [raised |-> FALSE, areas |-> acc]
    ELSE FormNext(remaining, gap, width_limit,
            PackAreas(<<Head(remaining)>> \o
                          SelectSeq(Tail(remaining),
                                    LAMBDA i : intersect(i, Head(remaining))),
                      1, gap, width_limit, acc,
                      [items |-> <<>>, width |-> 0]))

\* the turn of the while loop keeping the items the first one does not
\* intersect, instead of those that do not intersect the first one
FormNext_first_intersects(remaining, gap, width_limit, packed) ==
    IF packed.raised THEN [raised |-> TRUE, areas |-> packed.areas]
    ELSE FormAreas(SelectSeq(Tail(remaining),
                             LAMBDA i : ~intersect(Head(remaining), i)),
                   gap, width_limit, CloseArea(packed, gap))

\* from_items, one turn of the while loop after its for loop
FormNext(remaining, gap, width_limit, packed) ==
    IF packed.raised THEN [raised |-> TRUE, areas |-> packed.areas]
    ELSE FormAreas(SelectSeq(Tail(remaining),
                             LAMBDA i : ~intersect(i, Head(remaining))),
                   gap, width_limit, CloseArea(packed, gap))

\* from_items, the return: FullImage(areas, gap) of the areas formed
Compose(formed, gap) ==
    IF formed.raised \/ FullImage_raises(formed.areas)
    THEN [raised |-> TRUE, shape |-> <<0, 0>>, placed |-> <<>>]
    ELSE [raised |-> FALSE] @@ FullImage(formed.areas, gap)

\* FullImage.from_items: the full image, or raised where an exception
\* leaves the call
from_items(its, gap, width_limit) ==
    Compose(FormAreas(SortByHeight(its), gap, width_limit, <<>>), gap)

\* PgsToSrtRipper.__init__: the gap for the items of a source
GapFor(its) ==
    LET max_height == MaxOf(Map(LAMBDA i : i.height, its)) \div 2
    IN  <<max_height \div 2 + 30, max_height \div 2 + 100>>

\* items after the layout wrote their place: those placed replace the
\* items of the same index
WithPlaces(its, placed) ==
    [k \in 1 .. Len(its) |->
        IF \E j \in 1 .. Len(placed) : placed[j].index = its[k].index
        THEN placed[CHOOSE j \in 1 .. Len(placed) : placed[j].index = its[k].index]
        ELSE its[k]]

\* the item shapes the layout inputs are drawn from
ItemHeights == {0, 4}
ItemWidths == {1, 2}
ItemTops == {0, 3}
ItemShapes == [height : ItemHeights, width : ItemWidths, y : ItemTops]

MaxMosaicItems == 3

\* widths that hold no item, one item, two items, or all of them
MaxWidths == {50, 150, 250, 10240}

InitMosaic ==
    /\ \E n \in 1 .. MaxMosaicItems :
          \E shs \in [1 .. n -> ItemShapes] :
             m_items = [k \in 1 .. n |->
                 Item(k - 1, Some(1000 * k), Some(1000 * k + 500),
                      shs[k].height, shs[k].width, 10 * k, shs[k].y)]
    /\ m_gap = GapFor(m_items)
    /\ m_max_width \in MaxWidths
    /\ m_pc = "call"
    /\ m_areas = <<>>
    /\ full_image = None
    /\ ReaderIdle
    /\ RleIdle
    /\ RipIdle
    /\ OrchIdle

\* the areas of from_items, each as the indexes of its items
AreaIndexes(areas) ==
    [a \in 1 .. Len(areas) |-> Map(LAMBDA i : i.index, areas[a].items)]

\* FullImage.from_items returns
FromItems ==
    /\ m_pc = "call"
    /\ LET r == from_items(m_items, m_gap, m_max_width)
       IN  /\ ~r.raised
           /\ m_items' = WithPlaces(m_items, r.placed)
           /\ full_image' = Some(r.shape)
    /\ m_areas' = AreaIndexes(FormAreas(SortByHeight(m_items), m_gap,
                                       m_max_width, <<>>).areas)
    /\ m_pc' = "done"
    /\ UNCHANGED <<m_gap, m_max_width, orchVars, readerVars, rleVars, ripVars>>

\* FullImage.from_items raises
FromItemsRaises ==
    /\ m_pc = "call"
    /\ from_items(m_items, m_gap, m_max_width).raised
    /\ m_pc' = "raised"
    /\ UNCHANGED <<m_items, m_gap, m_max_width, m_areas, full_image, orchVars,
                   readerVars, rleVars, ripVars>>

NextMosaic ==
    \/ FromItems
    \/ FromItemsRaises

SpecMosaic == InitMosaic /\ [][NextMosaic]_vars

-----------------------------------------------------------------------------
(* Claims on the mosaic layout *)

\* the place lies in an image of the given shape
Inside(place, sh) ==
    /\ 0 <= place[1] /\ place[1] <= place[3] /\ place[3] <= sh[1]
    /\ 0 <= place[2] /\ place[2] <= place[4] /\ place[4] <= sh[2]

\* two places share no point, borders included
Disjoint(p, q) ==
    \/ p[3] < q[1] \/ q[3] < p[1]
    \/ p[4] < q[2] \/ q[4] < p[2]

\* C8: after from_items every item has a place inside the composite image,
\* and the places of two distinct items are disjoint.
C8_PlacesInsideDisjoint ==
    m_pc = "done" =>
        /\ \A k \in 1 .. Len(m_items) :
              /\ m_items[k].place # None
              /\ Inside(m_items[k].place[1], full_image[1])
        /\ \A j, k \in 1 .. Len(m_items) :
              j # k => Disjoint(m_items[j].place[1], m_items[k].place[1])

\* a layout of three items, two of them side by side in one area and the
\* third in an area below
C8_Witness ==
    /\ m_pc = "done"
    /\ Len(m_items) = 3
    /\ \E j, k \in 1 .. 3 :
          /\ j # k
          /\ m_items[j].place[1][2] = Border
          /\ m_items[k].place[1][2] > Border
    /\ \E j, k \in 1 .. 3 :
          /\ j # k
          /\ m_items[j].place[1][2] = Border
          /\ m_items[k].place[1][2] = Border

-----------------------------------------------------------------------------
(* OCR results: TsvDataItem, TsvData *)

\* a str is the sequence of its characters
Whitespace == {" ", "\n"}

RECURSIVE join(_, _)
\* sep.join(strs)
join(sep, strs) ==
    IF strs = <<>> THEN <<>>
    ELSE IF Len(strs) = 1 THEN strs[1]
         ELSE strs[1] \o sep \o join(sep, Tail(strs))

RECURSIVE lstrip(_)
lstrip(str) ==
    IF str # <<>> /\ Head(str) \in Whitespace THEN lstrip(Tail(str)) ELSE str

RECURSIVE rstrip(_)
rstrip(str) ==
    IF str # <<>> /\ str[Len(str)] \in Whitespace
    THEN rstrip(SubSeq(str, 1, Len(str) - 1))
    ELSE str

\* str.strip()
strip(str) == rstrip(lstrip(str))

TsvDataItem(level, block_num, line_num, word_num, left, top, width, height, conf, text) ==
    [level |-> level, page_num |-> 1, block_num |-> block_num, par_num |-> 1,
     line_num |-> line_num, word_num |-> word_num, left |-> left, top |-> top,
     width |-> width, height |-> height, conf |-> conf, text |-> text]

\* TsvDataItem.h_center, TsvDataItem.w_center (named apart from the item's)
row_h_center(row) == row.top + row.height \div 2
row_w_center(row) == row.left + row.width \div 2

\* a row matching every place whose vertical band holds its centre
matches_band_only(row, sh) ==
    sh[1] <= row_h_center(row) /\ row_h_center(row) <= sh[3]

\* TsvDataItem.matches
matches(row, sh) ==
    /\ sh[1] <= row_h_center(row) /\ row_h_center(row) <= sh[3]
    /\ sh[2] <= row_w_center(row) /\ row_w_center(row) <= sh[4]

\* the key the five stable sorts of TsvData.__init__ order the rows by
RowKey(row) ==
    <<row.page_num, row.block_num, row.par_num, row.line_num, row.word_num>>

RECURSIVE KeyLeq(_, _)
KeyLeq(k1, k2) ==
    IF k1 = <<>> THEN TRUE
    ELSE IF Head(k1) # Head(k2) THEN Head(k1) < Head(k2)
         ELSE KeyLeq(Tail(k1), Tail(k2))

RECURSIVE InsertRow(_, _)
InsertRow(s, x) ==
    IF s = <<>> THEN <<x>>
    ELSE IF KeyLeq(RowKey(s[Len(s)]), RowKey(x)) THEN Append(s, x)
         ELSE Append(InsertRow(SubSeq(s, 1, Len(s) - 1), x), s[Len(s)])

RECURSIVE SortRows(_)
SortRows(s) ==
    IF s = <<>> THEN <<>>
    ELSE InsertRow(SortRows(SubSeq(s, 1, Len(s) - 1)), s[Len(s)])

\* TsvData.__init__ that takes the words of every row for known
TsvData_words_of_any_conf(rows, conf) ==
    [confidence |-> conf,
     items |-> SortRows(rows),
     words |-> {r.text : r \in {x \in SeqToSet(rows) : x.text # <<>>}}]

\* TsvData.__init__
TsvData(rows, conf) ==
    [confidence |-> conf,
     items |-> SortRows(rows),
     words |-> {r.text : r \in {x \in SeqToSet(rows) :
                                   x.text # <<>> /\ x.conf >= conf}}]

\* TsvData.select
select(tsv, sh) ==
    SelectSeq(tsv.items, LAMBDA r : r.level = 5 /\ matches(r, sh))

\* TsvData.has_word
has_word(tsv, word) == word \in tsv.words

-----------------------------------------------------------------------------
(* PgsToSrtRipper.accept, PgsToSrtRipper.process *)

\* accept, whether the line of last_row ended before row
NewLine(last_row, row) ==
    \/ last_row.page_num < row.page_num
    \/ last_row.block_num < row.block_num
    \/ last_row.par_num < row.par_num
    \/ last_row.line_num < row.line_num

RECURSIVE AcceptRows(_, _, _, _, _, _)
\* accept, the loop over the rows from position k on: None where a row is
\* rejected, else the lines collected
AcceptRows(tsv, rows, k, conf, lines, words) ==
    IF k > Len(rows)
    THEN Some(IF Len(words) > 0 THEN Append(lines, join(<<" ">>, words))
              ELSE lines)
    ELSE IF rows[k].conf < conf /\ ~has_word(tsv, rows[k].text) THEN None
         ELSE IF k > 1 /\ NewLine(rows[k - 1], rows[k]) /\ Len(words) > 0
              THEN AcceptRows(tsv, rows, k + 1, conf,
                              Append(lines, join(<<" ">>, words)),
                              <<rows[k].text>>)
              ELSE AcceptRows(tsv, rows, k + 1, conf, lines,
                              Append(words, rows[k].text))

\* accept, the end: '\n'.join(lines).strip()
JoinLines(lines) ==
    IF lines = None THEN None ELSE Some(strip(join(<<"\n">>, lines[1])))

\* accept: None, or the text it writes to item.text and returns
accept(tsv, item, conf) ==
    JoinLines(AcceptRows(tsv,
                         IF item.place # None
                         THEN select(tsv, item.place[1]) ELSE <<>>,
                         1, conf, <<>>, <<>>))

\* SubRipItem(0, item.start, item.end, text)
SubRipItem(index, start, end, text) ==
    [index |-> index, start |-> start, end |-> end, text |-> text]

\* the end of the loop body without the test of the text
Emit_any_text(sub_list, item, text) ==
    Append(sub_list, [index |-> 0, start |-> item.start[1],
                      end |-> item.end[1], text |-> text])

\* process, the end of the loop body: the record of an accepted item is
\* appended if its post-processed text is not empty
Emit(sub_list, item, text) ==
    IF text # <<>>
    THEN Append(sub_list, SubRipItem(0, item.start[1], item.end[1], text))
    ELSE sub_list

\* the post-processor handed to rip: a transform of strings
PostProcess(o, text) ==
    IF o.profile = "censored" /\ text = <<"x">> THEN <<>> ELSE text

\* the loop of process returning every item of the pass as remaining
ProcessItems_all_remaining(ids, o, st, texts) ==
    [items |->
        [p \in 1 .. Len(st.items) |->
            IF \E j \in 1 .. Len(ids) : ids[j] = p /\ texts[j] # None
            THEN [st.items[p] EXCEPT !.text =
                     texts[CHOOSE j \in 1 .. Len(ids) : ids[j] = p]]
            ELSE st.items[p]],
     subs |->
        st.subs \o Concat([j \in 1 .. Len(ids) |->
            IF texts[j] = None THEN <<>>
            ELSE Emit(<<>>, st.items[ids[j]], PostProcess(o, texts[j][1]))]),
     remaining |-> ids]

\* process, the loop over the items of the pass. A turn of the loop reads
\* and writes its own item only, so the results of the turns are collected
\* in the order of the loop: texts[j] is what accept returned for ids[j].
ProcessItems(ids, o, st, texts) ==
    [items |->
        [p \in 1 .. Len(st.items) |->
            IF \E j \in 1 .. Len(ids) : ids[j] = p /\ texts[j] # None
            THEN [st.items[p] EXCEPT !.text =
                     texts[CHOOSE j \in 1 .. Len(ids) : ids[j] = p]]
            ELSE st.items[p]],
     subs |->
        st.subs \o Concat([j \in 1 .. Len(ids) |->
            IF texts[j] = None THEN <<>>
            ELSE Emit(<<>>, st.items[ids[j]], PostProcess(o, texts[j][1]))]),
     remaining |->
        Concat([j \in 1 .. Len(ids) |->
            IF texts[j] = None THEN <<ids[j]>> ELSE <<>>])]

\* the texts accept returns for the items of a pass
AcceptAll(tsv, placed, ids, conf) ==
    [j \in 1 .. Len(ids) |-> accept(tsv, placed[ids[j]], conf)]

\* the answer of tess.image_to_data for the items laid out in a pass: a page
\* row, and a word row at the place of each item. k items, at the head or
\* at the tail of the pass, are read with a low confidence.
OcrRows(placed, k, o, sh) ==
    LET m        == Len(placed)
        Low(j)   == IF o.side = "head" THEN j <= k ELSE j > m - k
        low_conf == IF o.profile = "hopeless" THEN 0 - 1
                    ELSE IF o.profile = "stubborn" THEN 1 ELSE 62
        low_text == IF o.profile = "rescued" THEN <<"w">> ELSE <<"x">>
        Missing(j) == /\ o.profile = "blank"
                      /\ ~Low(j)
                      /\ \A i \in 1 .. j - 1 : Low(i)
        Word(j)  == LET pl == placed[j].place[1]
                    IN  TsvDataItem(5, j, 1, 1, pl[2], pl[1],
                                    pl[4] - pl[2], pl[3] - pl[1],
                                    IF Low(j) THEN low_conf ELSE 95,
                                    IF Low(j) THEN low_text ELSE <<"w">>)
    IN  <<TsvDataItem(1, 0, 0, 0, 0, 0, sh[2], sh[1], 0 - 1, <<>>)>>
        \o Concat([j \in 1 .. m |->
                      IF Missing(j) THEN <<>> ELSE <<Word(j)>>])

\* process: the items, the records and the remaining positions it leaves,
\* or raised where an exception leaves the call
\* the items of all_items at the given positions
ItemsAt(all_items, ids) == [j \in 1 .. Len(ids) |-> all_items[ids[j]]]

\* process, after the image was sent to the OCR engine
Recognise(placed, sub_list, ids, conf, o, k, sh) ==
    [raised |-> FALSE] @@
    ProcessItems(ids, o,
        [items |-> placed, subs |-> sub_list, remaining |-> <<>>],
        AcceptAll(TsvData(OcrRows(ItemsAt(placed, ids), k, o, sh), conf),
                  placed, ids, conf))

\* process, after the call of from_items
Laid(all_items, sub_list, ids, conf, o, k, lay) ==
    IF lay.raised
    THEN [raised |-> TRUE, items |-> all_items, subs |-> sub_list,
          remaining |-> <<>>]
    ELSE Recognise(WithPlaces(all_items, lay.placed), sub_list, ids, conf,
                   o, k, lay.shape)

\* process: the items, the records and the remaining positions it leaves,
\* or raised where an exception leaves the call
process(all_items, sub_list, ids, conf, width_limit, gap, o, k) ==
    Laid(all_items, sub_list, ids, conf, o, k,
         from_items(ItemsAt(all_items, ids), gap, width_limit))

-----------------------------------------------------------------------------
(* PgsToSrtRipper.__init__, PgsToSrtRipper.rip *)

DefaultConfidence == 65
MaxConfidence == 100
MinTessWidth == 10 * 1024
MaxTessWidth == 31 * 1024
RetryMin == 20
ConfidenceStep == 5

\* x or default
OrDefault(x, default) == IF x = None \/ x[1] = 0 THEN default ELSE x[1]

\* PgsToSrtRipper.__init__
PgsToSrtRipper(its, opts) ==
    [confidence |->
        Min2(Max2(OrDefault(opts.confidence, DefaultConfidence), 0),
             MaxConfidence),
     max_tess_width |->
        Min2(Max2(OrDefault(opts.tesseract_width, MaxTessWidth),
                  MinTessWidth), MaxTessWidth),
     gap |-> GapFor(its)]
\* max([]) raises ValueError
PgsToSrtRipper_raises(its) == its = <<>>

\* sum([item.width + self.gap[1] for item in items])
WidthOf(its, gap) == Sum(Map(LAMBDA i : i.width + gap[2], its))

\* the final pass at the width of the passes before it
FinalWidth_not_collapsed(its, r) == r.max_tess_width

\* rip, the max_width of the final pass
FinalWidth(its, r) == Min2(WidthOf(its, r.gap), r.max_tess_width)

\* the width after a pass with little progress, not halved
ShrinkWidth_not_halved(its, r) == Min2(WidthOf(its, r.gap), r.max_tess_width)

\* rip, the max_width after a pass with little progress
ShrinkWidth(its, r) == Min2(WidthOf(its, r.gap), r.max_tess_width) \div 2

\* the confidence kept after a pass with little progress
ShrinkConfidence_not_lowered(conf) == Max2(0, conf)

\* rip, the confidence after a pass with little progress
ShrinkConfidence(conf) == Max2(0, conf - ConfidenceStep)

\* current_size > previous_size * 0.8
LittleProgress(current_size, previous) == 5 * current_size > 4 * previous

RECURSIVE InsertSub(_, _)
InsertSub(s, x) ==
    IF s = <<>> THEN <<x>>
    ELSE IF KeyLeq(<<s[Len(s)].start, s[Len(s)].end>>, <<x.start, x.end>>)
         THEN Append(s, x)
         ELSE Append(InsertSub(SubSeq(s, 1, Len(s) - 1), x), s[Len(s)])

RECURSIVE SortSubs(_)
SortSubs(s) ==
    IF s = <<>> THEN <<>>
    ELSE InsertSub(SortSubs(SubSeq(s, 1, Len(s) - 1)), s[Len(s)])

Renumber(sorted) ==
    [k \in 1 .. Len(sorted) |-> [sorted[k] EXCEPT !.index = k]]

\* clean_indexes that numbers the records in the order they were appended
clean_indexes_unsorted(sub_list) == Renumber(sub_list)

\* subs.clean_indexes(): the records sorted by (start, end) and numbered
\* from 1
clean_indexes(sub_list) == Renumber(SortSubs(sub_list))

Call(ids, conf, width_limit, remaining) ==
    [items |-> ids, confidence |-> conf, max_width |-> width_limit,
     remaining |-> remaining]

SmallItems == 3
MaxItems == 25
MaxPasses == 4

\* the numbers of items of a source: a few, or enough for the retry loop
ItemCounts == (0 .. SmallItems) \cup (MaxItems - 1 .. MaxItems)

\* the items of a source as create_items returns them: end after start,
\* two items may start together; wide makes the first two too wide to lie
\* side by side in one OCR image
RipItems(n, wide) ==
    [k \in 1 .. n |->
        Item(k - 1, Some(1000 * ((k + 1) \div 2)),
             Some(1000 * ((k + 1) \div 2) + 500 + k),
             2 * (k % 3),
             IF wide /\ k <= 2 THEN 20000 ELSE 1 + (k % 2),
             10 * k, 3 * (k % 2))]

OcrProfiles == {"clean", "hopeless", "rescued", "blank", "censored"}
OcrSides == {"head", "tail"}
ConfidenceOptions == {None, Some(7)}
WidthOptions == {None, Some(5000)}

\* the numbers of items a pass of m items may leave unread: the values
\* around the thresholds of the retry loop
PassOutcomes(m) ==
    {k \in 0 .. m :
        k \in {0, m, RetryMin - 1, RetryMin,
               (4 * m) \div 5, (4 * m) \div 5 + 1}}

InitRip ==
    /\ \E n \in ItemCounts, wide \in BOOLEAN :
          /\ wide => n <= SmallItems
          /\ pgs_items = RipItems(n, wide)
          /\ options \in [confidence : ConfidenceOptions,
                          tesseract_width :
                              IF wide THEN WidthOptions ELSE {None}]
    /\ ocr \in [profile : OcrProfiles, side : OcrSides]
    /\ ripper = None
    /\ rip_items = <<>>
    /\ subs = <<>>
    /\ confidence = 0
    /\ max_width = 0
    /\ previous_size = 0
    /\ calls = <<>>
    /\ rip_pc = "new"
    /\ ReaderIdle
    /\ RleIdle
    /\ MosaicIdle
    /\ OrchIdle

\* PgsToSrtRipper(p, options).rip(...) up to the loop
RipNew ==
    /\ rip_pc = "new"
    /\ ~PgsToSrtRipper_raises(pgs_items)
    /\ ripper' = PgsToSrtRipper(pgs_items, options)
    /\ confidence' = ripper'.confidence
    /\ max_width' = ripper'.max_tess_width
    /\ rip_items' = [k \in 1 .. Len(pgs_items) |-> k]
    /\ previous_size' = Len(pgs_items)
    /\ subs' = <<>>
    /\ rip_pc' = "loop"
    /\ UNCHANGED <<pgs_items, options, ocr, calls, orchVars, readerVars, rleVars,
                   mosaicVars>>

\* the constructor raises: no item to take the gap from
RipNewRaises ==
    /\ rip_pc = "new"
    /\ PgsToSrtRipper_raises(pgs_items)
    /\ rip_pc' = "raised"
    /\ UNCHANGED <<pgs_items, options, ocr, ripper, rip_items, subs,
                   confidence, max_width, previous_size, calls, orchVars, readerVars,
                   rleVars, mosaicVars>>

\* the while loop of rip after its call of process
LoopBody(r) ==
    /\ ~r.raised
    /\ pgs_items' = r.items
    /\ rip_items' = r.remaining
    /\ calls' = Append(calls,
                       Call(rip_items, confidence, max_width, r.remaining))
    /\ IF r.remaining = <<>>
       THEN /\ subs' = clean_indexes(r.subs)
            /\ rip_pc' = "done"
            /\ UNCHANGED <<confidence, max_width, previous_size>>
       ELSE IF Len(r.remaining) < RetryMin
       THEN /\ subs' = r.subs
            /\ max_width' = FinalWidth(ItemsAt(r.items, r.remaining), ripper)
            /\ confidence' = 0
            /\ rip_pc' = "final"
            /\ UNCHANGED previous_size
       ELSE /\ subs' = r.subs
            /\ IF LittleProgress(Len(r.remaining), previous_size)
               THEN /\ max_width' =
                          ShrinkWidth(ItemsAt(r.items, r.remaining), ripper)
                    /\ confidence' = ShrinkConfidence(confidence)
               ELSE UNCHANGED <<confidence, max_width>>
            /\ previous_size' = Len(r.remaining)
            /\ rip_pc' = "loop"

\* one turn of the while loop of rip
RipPass ==
    /\ rip_pc = "loop"
    /\ previous_size > 0
    /\ Len(calls) < MaxPasses
    /\ \E k \in PassOutcomes(Len(rip_items)) :
          LoopBody(process(pgs_items, subs, rip_items, confidence, max_width,
                           ripper.gap, ocr, k))
    /\ UNCHANGED <<options, ocr, ripper, orchVars, readerVars, rleVars, mosaicVars>>

\* rip after the call of process for the final pass
FinalBody(r) ==
    /\ ~r.raised
    /\ pgs_items' = r.items
    /\ calls' = Append(calls,
                       Call(rip_items, confidence, max_width, r.remaining))
    /\ subs' = clean_indexes(r.subs)

\* the final pass of rip, and its return
RipFinal ==
    /\ rip_pc = "final"
    /\ \E k \in PassOutcomes(Len(rip_items)) :
          FinalBody(process(pgs_items, subs, rip_items, confidence, max_width,
                            ripper.gap, ocr, k))
    /\ rip_pc' = "done"
    /\ UNCHANGED <<options, ocr, ripper, rip_items, confidence, max_width,
                   previous_size, orchVars, readerVars, rleVars, mosaicVars>>

\* process raises: the exception leaves rip
RipRaises ==
    /\ rip_pc \in {"loop", "final"}
    /\ process(pgs_items, subs, rip_items, confidence, max_width, ripper.gap,
               ocr, 0).raised
    /\ rip_pc' = "raised"
    /\ UNCHANGED <<pgs_items, options, ocr, ripper, rip_items, subs,
                   confidence, max_width, previous_size, calls, orchVars, readerVars,
                   rleVars, mosaicVars>>

NextRip ==
    \/ RipNew
    \/ RipNewRaises
    \/ RipPass
    \/ RipFinal
    \/ RipRaises

SpecRip == InitRip /\ [][NextRip]_vars

-----------------------------------------------------------------------------
(* Claims on PgsToSrtRipper *)

\* the records of the given list made from the item
RecordsOf(sub_list, item) ==
    {k \in 1 .. Len(sub_list) :
        /\ sub_list[k].start = item.start[1]
        /\ sub_list[k].end = item.end[1]}

\* the positions of the items the p-th call of process resolved
ResolvedBy(p) ==
    {id \in SeqToSet(calls[p].items) : id \notin SeqToSet(calls[p].remaining)}

\* C6: the records rip returns are numbered 1..N and lie in non-decreasing
\* order of start, in whatever order the passes appended them.
C6_IndexedInStartOrder ==
    rip_pc = "done" =>
        \A k \in 1 .. Len(subs) :
            /\ subs[k].index = k
            /\ k < Len(subs) => subs[k].start <= subs[k + 1].start

\* rip returned records of two passes, where an item resolved in the second
\* pass starts before an item resolved in the first
C6_Witness ==
    /\ rip_pc = "done"
    /\ Len(calls) >= 2
    /\ \E a \in ResolvedBy(1), c \in ResolvedBy(2) :
          /\ RecordsOf(subs, pgs_items[a]) # {}
          /\ RecordsOf(subs, pgs_items[c]) # {}
          /\ pgs_items[c].start[1] < pgs_items[a].start[1]

\* C7: every record appended has end > start and a text that is not
\* empty; an accepted item whose text, or whose post-processed text, is
\* empty has no record.
C7_RecordsValid ==
    /\ \A k \in 1 .. Len(subs) :
          subs[k].end > subs[k].start /\ subs[k].text # <<>>
    /\ \A p \in 1 .. Len(pgs_items) :
          (/\ pgs_items[p].text # None
           /\ PostProcess(ocr, pgs_items[p].text[1]) = <<>>)
              => RecordsOf(subs, pgs_items[p]) = {}

\* records were appended, and an accepted item has none: it was read as the
\* empty text, or the post-processor emptied its text
C7_Witness ==
    /\ subs # <<>>
    /\ \E p \in 1 .. Len(pgs_items) :
          /\ pgs_items[p].text # None
          /\ PostProcess(ocr, pgs_items[p].text[1]) = <<>>
          /\ ocr.profile \in {"blank", "censored"}

\* the p-th call of process is a turn of the while loop: every call before
\* it left RetryMin items or more
LoopCall(p) == \A q \in 1 .. p - 1 : Len(calls[q].remaining) >= RetryMin

\* sum over the items at the given positions of width + gap_x
NeededWidth(ids) ==
    Sum([j \in 1 .. Len(ids) |-> pgs_items[ids[j]].width + ripper.gap[2]])

\* C9: when a turn of the loop leaves 1 to 19 items, exactly one more pass
\* runs, on those items, with confidence 0 and max_width
\* min(sum of width + gap_x, max_tess_width); then rip ends, and the items
\* that pass leaves have no record.  (A pass that raises ends rip with its
\* exception.)
C9_OneFinalPass ==
    \A p \in 1 .. Len(calls) :
        (/\ LoopCall(p)
         /\ Len(calls[p].remaining) >= 1
         /\ Len(calls[p].remaining) < RetryMin)
        => /\ Len(calls) <= p + 1
           /\ Len(calls) = p => rip_pc \in {"final", "raised"}
           /\ Len(calls) = p + 1 =>
                 /\ rip_pc = "done"
                 /\ calls[p + 1].items = calls[p].remaining
                 /\ calls[p + 1].confidence = 0
                 /\ calls[p + 1].max_width =
                        Min2(NeededWidth(calls[p].remaining),
                             ripper.max_tess_width)
                 /\ \A id \in SeqToSet(calls[p + 1].remaining) :
                        RecordsOf(subs, pgs_items[id]) = {}

\* rip returned after a first pass that left 1 to 19 items and a final pass
\* that left some of them
C9_Witness ==
    /\ rip_pc = "done"
    /\ Len(calls) = 2
    /\ Len(calls[1].remaining) \in 1 .. RetryMin - 1
    /\ calls[2].remaining # <<>>
    /\ Len(calls[2].remaining) < Len(calls[1].remaining)

\* the p-th call of process is a turn of the loop that made little
\* progress: it left RetryMin items or more, and more than 0.8 times the
\* number it started with
LittleProgressAt(p) ==
    /\ LoopCall(p)
    /\ Len(calls[p].remaining) >= RetryMin
    /\ 5 * Len(calls[p].remaining) > 4 * Len(calls[p].items)

-----------------------------------------------------------------------------
(* MediaPath: a value with the fields base_path, number, language and      *)
(* extension.  A language is its code; Language('und') is falsy.           *)

\* MediaPath.__init__ on a path "<base>.<code>.<ext>": number is 0
MediaPath(base_path, language, extension) ==
    [base_path |-> base_path, number |-> 0, language |-> language,
     extension |-> extension]

\* translate testing the truth of its arguments instead of "is not None"
translate_truthy(self, language, extension, number) ==
    [self EXCEPT
        !.number = IF number # None /\ number[1] # 0 THEN number[1] ELSE @,
        !.language = IF language # None /\ language[1] # "und"
                     THEN language[1] ELSE @,
        !.extension = IF extension # None /\ extension[1] # ""
                      THEN extension[1] ELSE @]

\* MediaPath.translate: the fields of the copy it returns; an argument is
\* None or Some(value)
translate(self, language, extension, number) ==
    [self EXCEPT
        !.number = IF number # None THEN number[1] ELSE @,
        !.language = IF language # None THEN language[1] ELSE @,
        !.extension = IF extension # None THEN extension[1] ELSE @]

\* MediaPath.__str__: the parts of the file name; a part that is falsy
\* (number 0, language und, no extension) is left out
path_str(self) ==
    <<self.base_path,
      IF self.number # 0 THEN <<self.number>> ELSE <<>>,
      IF self.language # "und" THEN <<self.language>> ELSE <<>>,
      IF self.extension # "" THEN <<self.extension>> ELSE <<>> >>

\* MediaPath.exists and MediaPath.m_age on a file system fs
exists(fs, self) == fs[path_str(self)] # None
m_age(fs, self) == fs[path_str(self)][1].age

-----------------------------------------------------------------------------
(* Pgs, Sup, MkvPgs and rip_pgs *)

\* Pgs.__init__
Pgs(media_path, temp_folder, source) ==
    [media_path |-> media_path, temp_folder |-> temp_folder, source |-> source]

\* Pgs.srt_path
srt_path(pgs) == translate(pgs.media_path, None, Some("srt"), Some(0))

\* Pgs.matches
pgs_matches(pgs, fs, opts) ==
    IF ~exists(fs, srt_path(pgs)) THEN TRUE
    ELSE IF ~opts.overwrite THEN FALSE
    ELSE IF opts.srt_age # None /\ opts.srt_age[1] # 0
            /\ m_age(fs, srt_path(pgs)) < opts.srt_age[1]
    THEN FALSE
    ELSE TRUE

\* MediaPath.create_temp_folder: tempfile.mkdtemp makes a folder that did
\* not exist; folders are named by the order of their creation
create_temp_folder(made) == made + 1

\* Pgs.__exit__: the temporary folders left
PgsExit(temps, pgs, opts) ==
    IF opts.keep_temp_files THEN temps ELSE temps \ {pgs.temp_folder}

\* the path of the SubRipFile PgsToSrtRipper.rip builds and save() writes
SavedPath(pgs) == translate(pgs.media_path, None, Some("srt"), None)

\* what can happen to a source inside rip_pgs: the stage that raises
Fates == {"ok", "read", "decode", "ocr", "save"}

\* the file SubRipFile.save leaves: written whole, or (when save raises)
\* nothing or a partial file
AfterSave(fs, pgs, fate, partial, who) ==
    IF fate = "ok"
    THEN [fs EXCEPT ![path_str(SavedPath(pgs))] =
                Some([age |-> 0, content |-> <<"srt", who>>])]
    ELSE IF fate = "save" /\ partial
    THEN [fs EXCEPT ![path_str(SavedPath(pgs))] =
                Some([age |-> 0, content |-> <<"partial", who>>])]
    ELSE fs

\* rip_pgs with no except clause: the exception leaves rip_pgs
rip_pgs_uncaught(pgs, fs, opts, fate, partial, who) ==
    IF ~pgs_matches(pgs, fs, opts)
    THEN [skipped |-> TRUE, returned |-> FALSE, propagated |-> FALSE,
          ocr_ran |-> FALSE, fs |-> fs]
    ELSE [skipped    |-> FALSE,
          returned   |-> fate = "ok",
          propagated |-> fate # "ok",
          ocr_ran    |-> fate \in {"ok", "ocr", "save"},
          fs         |-> AfterSave(fs, pgs, fate, partial, who)]

\* core.rip_pgs: whether the source was skipped, the value returned,
\* whether an exception left the call, whether process ran, the files left
rip_pgs(pgs, fs, opts, fate, partial, who) ==
    IF ~pgs_matches(pgs, fs, opts)
    THEN [skipped |-> TRUE, returned |-> FALSE, propagated |-> FALSE,
          ocr_ran |-> FALSE, fs |-> fs]
    ELSE [skipped    |-> FALSE,
          returned   |-> fate = "ok",
          propagated |-> FALSE,
          ocr_ran    |-> fate \in {"ok", "ocr", "save"},
          fs         |-> AfterSave(fs, pgs, fate, partial, who)]

-----------------------------------------------------------------------------
(* A batch: cli.pgsrip collects the Pgs objects of its sources, then calls *)
(* rip_pgs on each in turn                                                 *)

\* a .sup file a.eng.sup, and track number n of the eng tracks of m.mkv
SupSource == [kind |-> "sup", media_path |-> MediaPath("a", "eng", "sup")]
MkvSource(n) ==
    [kind |-> "mkv", media_path |-> MediaPath("m", "und", "mkv"),
     language |-> "eng", number |-> n]

SourceChoices == {SupSource, MkvSource(0), MkvSource(1)}

MaxBatch == 2

Batches == UNION {[1 .. n -> SourceChoices] : n \in 0 .. MaxBatch}

\* the SRT files of the sources: a.eng.srt, m.eng.srt, m-1.eng.srt
SrtOf(base, n) ==
    path_str([base_path |-> base, number |-> n, language |-> "eng",
              extension |-> "srt"])
FsPaths == {SrtOf("a", 0), SrtOf("m", 0), SrtOf("m", 1)}

\* an SRT file found before the batch: aged 1 or 2 (hours), against an
\* srt_age of 2
FileAges == {1, 2}
SrtAges == {None, Some(2)}
OldFiles == {Some([age |-> a, content |-> <<"old">>]) : a \in FileAges}

BatchOptions ==
    [overwrite : BOOLEAN, srt_age : SrtAges, keep_temp_files : BOOLEAN]

InitBatch ==
    /\ b_sources \in Batches
    /\ b_options \in BatchOptions
    /\ fs_srt \in {f \in [FsPaths -> {None} \cup OldFiles] :
                      f[SrtOf("m", 1)] = None}
    /\ fs_temp = {}
    /\ scanned = 0
    /\ collected = <<>>
    /\ results = <<>>
    /\ ripped_count = 0
    /\ b_pc = "run"
    /\ ReaderIdle
    /\ RleIdle
    /\ MosaicIdle
    /\ RipIdle
    /\ TsvIdle
    /\ PathIdle
    /\ MkvIdle

\* Sup.get_pgs_medias, consumed by list(): the temporary folder is made,
\* the Pgs is built and is yielded if it matches
SupGetPgsMedias ==
    /\ b_pc = "run"
    /\ scanned < Len(b_sources)
    /\ b_sources[scanned + 1].kind = "sup"
    /\ LET temp_folder == create_temp_folder(scanned)
           pgs == Pgs(b_sources[scanned + 1].media_path, temp_folder,
                      scanned + 1)
       IN  /\ fs_temp' = fs_temp \cup {temp_folder}
           /\ collected' = IF pgs_matches(pgs, fs_srt, b_options)
                           THEN Append(collected, pgs)
                           ELSE collected
    /\ scanned' = scanned + 1
    /\ UNCHANGED <<b_sources, b_options, fs_srt, results, ripped_count, b_pc,
                   pathVars, mkvVars, tsvVars, readerVars, rleVars, mosaicVars,
                   ripVars>>

\* MkvPgs.__init__ for a track of the MKV: the temporary folder is made and
\* the media path carries the language and the number of the track
NewMkvPgs ==
    /\ b_pc = "run"
    /\ scanned < Len(b_sources)
    /\ b_sources[scanned + 1].kind = "mkv"
    /\ LET src == b_sources[scanned + 1]
           temp_folder == create_temp_folder(scanned)
           pgs == Pgs(translate(src.media_path, Some(src.language), None,
                                Some(src.number)),
                      temp_folder, scanned + 1)
       IN  /\ fs_temp' = fs_temp \cup {temp_folder}
           /\ collected' = Append(collected, pgs)
    /\ scanned' = scanned + 1
    /\ UNCHANGED <<b_sources, b_options, fs_srt, results, ripped_count, b_pc,
                   pathVars, mkvVars, tsvVars, readerVars, rleVars, mosaicVars,
                   ripVars>>

\* the record kept of a call of rip_pgs on collected[i]
Result(i, fate, r, before) ==
    [pgs |-> i, fate |-> IF r.skipped THEN "skipped" ELSE fate,
     skipped |-> r.skipped, returned |-> r.returned, ocr_ran |-> r.ocr_ran,
     before |-> before, after |-> r.fs]

\* cli.pgsrip, one turn of the ripping loop: ripped_count += rip_pgs(pgs);
\* the with block of rip_pgs runs Pgs.__exit__ however it is left
RipPgs ==
    /\ b_pc = "run"
    /\ scanned = Len(b_sources)
    /\ Len(results) < Len(collected)
    /\ \E fate \in Fates, partial \in BOOLEAN :
          /\ partial => fate = "save"
          /\ LET i == Len(results) + 1
                 r == rip_pgs(collected[i], fs_srt, b_options, fate, partial, i)
             IN  /\ fs_srt' = r.fs
                 /\ fs_temp' = PgsExit(fs_temp, collected[i], b_options)
                 /\ results' = Append(results, Result(i, fate, r, fs_srt))
                 /\ ripped_count' = IF r.propagated THEN ripped_count
                                    ELSE IF r.returned THEN ripped_count + 1
                                    ELSE ripped_count
                 /\ b_pc' = IF r.propagated THEN "aborted" ELSE "run"
    /\ UNCHANGED <<b_sources, b_options, scanned, collected, pathVars,
                   mkvVars, tsvVars, readerVars, rleVars, mosaicVars, ripVars>>

NextBatch ==
    \/ SupGetPgsMedias
    \/ NewMkvPgs
    \/ RipPgs

SpecBatch == InitBatch /\ [][NextBatch]_vars

-----------------------------------------------------------------------------
(* Claims on the batch *)

\* the Pgs objects collected and not handed to rip_pgs yet
Waiting == {collected[i] : i \in Len(results) + 1 .. Len(collected)}

\* C11: with keep_temp_files false, every temporary folder made for a
\* source is removed once the source has left by any exit path (ripped,
\* failed, or skipped in get_pgs_medias or in rip_pgs): the folders that
\* exist belong to sources still waiting to be ripped.
C11_TempRemoved ==
    (b_pc = "run" /\ ~b_options.keep_temp_files) =>
        \A t \in fs_temp : \E pgs \in Waiting : pgs.temp_folder = t

\* the stages of rip_pgs that raised for the source of a result
Raising == {"read", "decode", "ocr", "save"}

\* the call of rip_pgs recorded as results[i] completed: the SRT of its
\* source was written whole by that call
Completed(i) ==
    results[i].after[path_str(SavedPath(collected[i]))] =
        Some([age |-> 0, content |-> <<"srt", i>>])

\* C12: an exception raised while reading, decoding, OCR-ing or saving one
\* source makes rip_pgs return False for that source only: the loop is
\* never left by an exception, so every later source is processed, and the
\* count of ripped sources is the number of sources that completed.
C12_FailureContained ==
    /\ b_pc # "aborted"
    /\ \A i \in 1 .. Len(results) :
          /\ results[i].fate \in Raising => ~results[i].returned
          /\ results[i].returned <=> Completed(i)
    /\ ripped_count = Cardinality({i \in 1 .. Len(results) : Completed(i)})

\* the first source of a batch of two raised while decoding, the second
\* was ripped and counted
C12_Witness ==
    /\ Len(results) = 2
    /\ results[1].fate = "decode"
    /\ results[2].fate = "ok"
    /\ results[2].returned
    /\ ripped_count = 1

-----------------------------------------------------------------------------
(* Claims on sources with no item or with defective display sets *)

\* C13: a source whose byte stream is empty has no display set and no item,
\* and ripping it completes normally with an SRT of zero records.
C13_EmptyStreamEmptySrt ==
    (pgs_items = create_items(<<>>).items /\ rip_pc # "new")
        => rip_pc = "done" /\ subs = <<>>

\* C14: a display set with no PCS or no WDS is not fatal: on a whole
\* stream of known segments, with such display sets or without, Pgs.decode
\* returns the items of the stream instead of failing the source.
C14_DefectiveSetNotFatal ==
    (ValidStream /\ data = Concat(stream) /\ rpc \notin {"read", "stopped"})
        => rpc = "done"

\* C15: the items create_items returns are ordered by start ascending,
\* whatever the order of the presentation times of the display sets.
C15_ItemsOrderedByStart ==
    rpc = "done" =>
        \A m \in 1 .. Len(items) - 1 :
            items[m].start[1] <= items[m + 1].start[1]

-----------------------------------------------------------------------------
(* Claims on the SRT policy *)

\* no SRT file exists on the file system fs
NoSrt(fs) == \A p \in FsPaths : fs[p] = None

\* C16: with overwrite disabled, the two eng tracks of an MKV, numbered 0
\* and 1, collected with no SRT present and ripped in sequence with no
\* failure, are both ripped: each ends with its own SRT written, and
\* ripping the first does not make the second skipped.
C16_BothTracksRipped ==
    (/\ b_sources = <<MkvSource(0), MkvSource(1)>>
     /\ ~b_options.overwrite
     /\ Len(results) = 2
     /\ NoSrt(results[1].before)
     /\ \A i \in 1 .. 2 : results[i].fate \notin Raising)
        => /\ \A i \in 1 .. 2 : ~results[i].skipped /\ results[i].returned
           /\ fs_srt[SrtOf("m", 0)] # None
           /\ fs_srt[SrtOf("m", 1)] # None

\* the SRT policy of the claim, on the file f found at the SRT path
ShouldSkip(f) ==
    /\ f # None
    /\ \/ ~b_options.overwrite
       \/ b_options.srt_age # None /\ f[1].age < b_options.srt_age[1]

\* C17: rip_pgs skips a source (returns False, runs no OCR pass, writes
\* nothing, leaves the existing SRT unchanged) exactly when its SRT, the
\* file the rip of the source writes, exists and either overwrite is false
\* or srt_age is set and the SRT is younger than srt_age; a source whose
\* SRT does not exist is never skipped.
C17_SkipPolicy ==
    \A i \in 1 .. Len(results) :
        LET f == results[i].before[path_str(SavedPath(collected[i]))]
        IN  /\ results[i].skipped <=> ShouldSkip(f)
            /\ results[i].skipped =>
                  /\ ~results[i].returned
                  /\ ~results[i].ocr_ran
                  /\ results[i].after = results[i].before
            /\ f = None => ~results[i].skipped

\* the same policy read on Pgs.srt_path, the path Pgs.matches looks at
SkipPolicyOnSrtPath ==
    \A i \in 1 .. Len(results) :
        LET f == results[i].before[path_str(srt_path(collected[i]))]
        IN  /\ results[i].skipped <=> ShouldSkip(f)
            /\ results[i].skipped =>
                  /\ ~results[i].returned
                  /\ ~results[i].ocr_ran
                  /\ results[i].after = results[i].before

-----------------------------------------------------------------------------
(* Mkv.get_pgs_medias: the tracks of an MKV that are collected *)

\* MkvTrack: id, type, codec and the properties enabled_track,
\* forced_track and language
MkvTrack(id, type, codec, enabled, forced, language) ==
    [id |-> id, type |-> type, codec |-> codec, enabled |-> enabled,
     forced |-> forced, language |-> language]

\* the attributes Options.__init__ sets
OptionsAttributes ==
    {"config", "languages", "tags", "encoding", "overwrite", "one_per_lang",
     "keep_temp_files", "max_workers", "confidence", "tesseract_width",
     "tesseract_oem", "tesseract_psm", "age", "srt_age"}

\* reading options.<name> raises AttributeError
getattr_raises(name) == name \notin OptionsAttributes

\* the key of tracks.sort(key=lambda x: x.forced): False before True
ForcedKey(t) == IF t.forced THEN 1 ELSE 0

RECURSIVE InsertByForced(_, _)
InsertByForced(t, sorted) ==
    IF sorted = <<>> THEN <<t>>
    ELSE IF ForcedKey(t) < ForcedKey(Head(sorted)) THEN <<t>> \o sorted
    ELSE <<Head(sorted)>> \o InsertByForced(t, Tail(sorted))

RECURSIVE SortByForced(_)
\* list.sort is stable: a track goes after the tracks of an equal key
SortByForced(ts) ==
    IF ts = <<>> THEN <<>>
    ELSE InsertByForced(ts[Len(ts)], SortByForced(SubSeq(ts, 1, Len(ts) - 1)))

RECURSIVE InsertById(_, _)
InsertById(t, sorted) ==
    IF sorted = <<>> THEN <<t>>
    ELSE IF t.id < Head(sorted).id THEN <<t>> \o sorted
    ELSE <<Head(sorted)>> \o InsertById(t, Tail(sorted))

RECURSIVE SortById(_)
\* tracks.sort(key=lambda x: x.id)
SortById(ts) ==
    IF ts = <<>> THEN <<>>
    ELSE InsertById(ts[Len(ts)], SortById(SubSeq(ts, 1, Len(ts) - 1)))

\* the tracks get_pgs_medias considers
IsPgsTrack(t) == t.type = "subtitles" /\ t.codec = "HDMV PGS" /\ t.enabled

\* the local tracks before the loop: filtered, sorted by forced, then
\* sorted by id
LocalTracks(ts) == SortById(SortByForced(SelectSeq(ts, IsPgsTrack)))

\* options.languages and language not in options.languages
LanguageFiltered(t, opts) ==
    opts.languages # {} /\ t.language \notin opts.languages

\* the tracks of an MKV: enabled PGS tracks, forced or not, in one of three
\* languages, and tracks that are no candidates
TrackKinds ==
    [type : {"subtitles"}, codec : {"HDMV PGS"}, enabled : {TRUE},
     forced : BOOLEAN, language : {"eng", "fra", "und"}]
    \cup {[type |-> "audio", codec |-> "AC-3", enabled |-> TRUE,
           forced |-> FALSE, language |-> "eng"],
          [type |-> "subtitles", codec |-> "SubRip/SRT", enabled |-> TRUE,
           forced |-> FALSE, language |-> "eng"],
          [type |-> "subtitles", codec |-> "HDMV PGS", enabled |-> FALSE,
           forced |-> FALSE, language |-> "eng"]}

MaxTracks == 2

\* mkvmerge numbers the tracks of a file from 0
TrackLists ==
    UNION {{[k \in 1 .. n |->
                MkvTrack(k - 1, f[k].type, f[k].codec, f[k].enabled,
                         f[k].forced, f[k].language)] :
              f \in [1 .. n -> TrackKinds]} : n \in 0 .. MaxTracks}

MkvOptions == [languages : {{}, {"eng"}}, one_per_lang : BOOLEAN]

InitMkv ==
    /\ mkv_tracks \in TrackLists
    /\ mkv_options \in MkvOptions
    /\ mkv_sorted = <<>>
    /\ mkv_pos = 0
    /\ mkv_out = <<>>
    /\ mkv_pc = "call"
    /\ ReaderIdle
    /\ RleIdle
    /\ MosaicIdle
    /\ RipIdle
    /\ TsvIdle
    /\ PathIdle
    /\ BatchIdle

\* get_pgs_medias up to its loop
MkvStart ==
    /\ mkv_pc = "call"
    /\ mkv_sorted' = LocalTracks(mkv_tracks)
    /\ mkv_pos' = 1
    /\ mkv_pc' = "loop"
    /\ UNCHANGED <<mkv_tracks, mkv_options, mkv_out, pathVars, batchVars,
                   tsvVars, readerVars, rleVars, mosaicVars, ripVars>>

\* the loop on a track the language filter rejects: continue
MkvFilteredOut ==
    /\ mkv_pc = "loop"
    /\ mkv_pos <= Len(mkv_sorted)
    /\ LanguageFiltered(mkv_sorted[mkv_pos], mkv_options)
    /\ mkv_pos' = mkv_pos + 1
    /\ UNCHANGED <<mkv_tracks, mkv_options, mkv_sorted, mkv_out, mkv_pc,
                   pathVars, batchVars, tsvVars, readerVars, rleVars, mosaicVars,
                   ripVars>>

\* the loop on a track the language filter lets through: the type filter
\* reads options.subtitle_type_filter, which raises AttributeError, and
\* the exception leaves the generator
MkvTypeFilter ==
    /\ mkv_pc = "loop"
    /\ mkv_pos <= Len(mkv_sorted)
    /\ ~LanguageFiltered(mkv_sorted[mkv_pos], mkv_options)
    /\ getattr_raises("subtitle_type_filter")
    /\ mkv_pc' = "raised"
    /\ UNCHANGED <<mkv_tracks, mkv_options, mkv_sorted, mkv_pos, mkv_out,
                   pathVars, batchVars, tsvVars, readerVars, rleVars, mosaicVars,
                   ripVars>>

\* the loop is over: the generator is exhausted
MkvExhausted ==
    /\ mkv_pc = "loop"
    /\ mkv_pos > Len(mkv_sorted)
    /\ mkv_pc' = "done"
    /\ UNCHANGED <<mkv_tracks, mkv_options, mkv_sorted, mkv_pos, mkv_out,
                   pathVars, batchVars, tsvVars, readerVars, rleVars, mosaicVars,
                   ripVars>>

NextMkv ==
    \/ MkvStart
    \/ MkvFilteredOut
    \/ MkvTypeFilter
    \/ MkvExhausted

SpecMkv == InitMkv /\ [][NextMkv]_vars

-----------------------------------------------------------------------------
(* Claims on the track selection *)

\* track t comes before track u in the order of the claim: forced
\* ascending, then id ascending
Before(t, u) ==
    \/ ForcedKey(t) < ForcedKey(u)
    \/ ForcedKey(t) = ForcedKey(u) /\ t.id < u.id

\* the tracks the claim selects: the enabled PGS tracks that pass the
\* language filter and, with one_per_lang, come first of their language
Selected(ts, opts) ==
    {t \in SeqToSet(ts) :
        /\ IsPgsTrack(t)
        /\ ~LanguageFiltered(t, opts)
        /\ opts.one_per_lang =>
              ~\E u \in SeqToSet(ts) :
                  /\ IsPgsTrack(u)
                  /\ u.language = t.language
                  /\ Before(u, t)}

\* C18: get_pgs_medias returns, and what it yields are the tracks of type
\* subtitles and codec HDMV PGS that are enabled, pass the language filter
\* and, with one_per_lang, are the first of their language in the order
\* forced ascending, then id ascending; they are yielded in that order.
C18_TrackSelection ==
    mkv_pc \in {"done", "raised"} =>
        /\ mkv_pc = "done"
        /\ {mkv_out[k].id : k \in 1 .. Len(mkv_out)}
              = {t.id : t \in Selected(mkv_tracks, mkv_options)}
        /\ \A k \in 1 .. Len(mkv_out) - 1 : Before(mkv_out[k], mkv_out[k + 1])

-----------------------------------------------------------------------------
(* MediaPath.translate on the objects of a run *)

\* the paths of the files pgsrip accepts: a.sup, a.eng.sup, a.mkv, a.eng.mkv
PathChoices ==
    {MediaPath("a", l, e) : l \in {"und", "eng"}, e \in {"sup", "mkv"}}

Fields == {"language", "extension", "number"}

NoArgs == [a \in Fields |-> None]

\* the arguments of a call: none, or one of the three given a value
ArgChoices ==
    {NoArgs}
    \cup {[NoArgs EXCEPT !.language = Some(l)] : l \in {"und", "eng"}}
    \cup {[NoArgs EXCEPT !.extension = Some(e)] : e \in {"", "srt"}}
    \cup {[NoArgs EXCEPT !.number = Some(n)] : n \in {0, 1}}

MaxTranslates == 3

InitPath ==
    /\ \E mp \in PathChoices : mp_objs = <<mp>>
    /\ mp_calls = <<>>
    /\ ReaderIdle
    /\ RleIdle
    /\ MosaicIdle
    /\ RipIdle
    /\ TsvIdle
    /\ MkvIdle
    /\ BatchIdle

\* a call self.translate(...) on one of the objects: copy(self) is a new
\* object, which gets the fields translate gives it and is returned
Translate ==
    /\ Len(mp_calls) < MaxTranslates
    /\ \E self \in 1 .. Len(mp_objs), args \in ArgChoices :
          /\ mp_objs' = Append(mp_objs,
                               translate(mp_objs[self], args.language,
                                         args.extension, args.number))
          /\ mp_calls' = Append(mp_calls,
                                [self |-> self, args |-> args,
                                 result |-> Len(mp_objs) + 1,
                                 before |-> mp_objs[self]])
    /\ UNCHANGED <<mkvVars, batchVars, tsvVars, readerVars, rleVars, mosaicVars,
                   ripVars>>

NextPath == Translate

SpecPath == InitPath /\ [][NextPath]_vars

\* call c gave a value to field a and to no other field
SetsOnly(c, a) ==
    /\ c.args[a] # None
    /\ \A o \in Fields \ {a} : c.args[o] = None

\* C19: translate returns a new path and leaves the fields of its receiver
\* unchanged; and for each field a of language, extension and number,
\* translate(a=x).translate(a=y) equals translate(a=y) field by field: a is
\* y and every other field is the receiver's.
C19_TranslateLastWins ==
    /\ \A k \in 1 .. Len(mp_calls) :
          /\ mp_calls[k].result # mp_calls[k].self
          /\ mp_objs[mp_calls[k].self] = mp_calls[k].before
    /\ \A a \in Fields :
       \A i, j \in 1 .. Len(mp_calls) :
          (/\ SetsOnly(mp_calls[i], a)
           /\ SetsOnly(mp_calls[j], a)
           /\ mp_calls[j].self = mp_calls[i].result)
             => LET receiver == mp_calls[i].before
                    twice == mp_objs[mp_calls[j].result]
                IN  /\ twice[a] = mp_calls[j].args[a][1]
                    /\ \A o \in DOMAIN receiver \ {a} : twice[o] = receiver[o]
                    /\ \A k \in 1 .. Len(mp_calls) :
                          (/\ mp_calls[k].self = mp_calls[i].self
                           /\ mp_calls[k].args = mp_calls[j].args)
                             => mp_objs[mp_calls[k].result] = twice

\* number was set to 1 and then, on the path returned, to 0, and the
\* receiver was also translated to number 0 directly
C19_Witness ==
    \E i, j, k \in 1 .. Len(mp_calls) :
       /\ mp_calls[i].args.number = Some(1)
       /\ mp_calls[j].self = mp_calls[i].result
       /\ mp_calls[j].args.number = Some(0)
       /\ mp_calls[k].self = mp_calls[i].self
       /\ mp_calls[k].args.number = Some(0)
       /\ mp_objs[mp_calls[j].result].number = 0

-----------------------------------------------------------------------------
(* Claims on the grouping of display sets *)

\* the runs of display sets create_items built its candidates from
Runs == Candidates(display_sets).runs

\* C20: the runs of create_items, concatenated in order, are the input
\* sequence of display sets; every run but possibly the first begins with a
\* start display set (EPOCH_START or ACQUISITION_POINT), and no run holds a
\* start display set after its first element.
C20_RunsSplitAtStarts ==
    rpc = "done" =>
        /\ Concat(Runs) = display_sets
        /\ \A r \in 1 .. Len(Runs) :
              /\ Runs[r] # <<>>
              /\ r > 1 => is_start(Runs[r][1])
              /\ \A k \in 2 .. Len(Runs[r]) : ~is_start(Runs[r][k])

\* a first run that begins with a display set that is no start, followed
\* by a run of a start display set and one that is none
C20_Witness ==
    /\ rpc = "done"
    /\ Len(Runs) = 2
    /\ ~is_start(Runs[1][1])
    /\ Len(Runs[2]) = 2

-----------------------------------------------------------------------------
(* TsvData and PgsToSrtRipper.accept on one item and one OCR table *)

\* the place of the item in the OCR image: (h_start, w_start, h_end, w_end)
AcceptPlace == <<100, 100, 110, 120>>

\* the kinds of rows a table is made of: words in the place of the item or
\* away from it, read with a low or a high confidence, with an empty text
\* or one of two words; and a line row (level 4) in the place that carries
\* the word x
RowTexts == {<<>>, <<"w">>, <<"x">>}
RowConfs == {50, 95}
RowKinds ==
    [level : {5}, inside : BOOLEAN, conf : RowConfs, text : RowTexts]
    \cup {[level |-> 4, inside |-> TRUE, conf |-> 95, text |-> <<"x">>]}

MaxRows == 3

\* the k-th row of the table as tess.image_to_data gives it: the lines of
\* odd rows come after those of even rows in the sorted table
RowOf(kind, k) ==
    TsvDataItem(kind.level, 1, (k % 2) + 1, k,
                IF kind.inside THEN 105 ELSE 305, 102, 6, 5,
                kind.conf, kind.text)

Thresholds == {0, 65}

InitAccept ==
    /\ \E n \in 0 .. MaxRows :
          \E kinds \in [1 .. n -> RowKinds] :
             t_rows = [k \in 1 .. n |-> RowOf(kinds[k], k)]
    /\ t_conf \in Thresholds
    /\ \E placed \in BOOLEAN :
          t_item = [Item(0, Some(1000), Some(2000), 10, 20, 0, 0)
                        EXCEPT !.place = IF placed THEN Some(AcceptPlace)
                                         ELSE None]
    /\ t_data = None
    /\ t_result = None
    /\ t_pc = "new"
    /\ ReaderIdle
    /\ RleIdle
    /\ MosaicIdle
    /\ RipIdle
    /\ PathIdle
    /\ MkvIdle
    /\ BatchIdle

\* process: data = TsvData(tess.image_to_data(...), confidence=confidence)
NewTsvData ==
    /\ t_pc = "new"
    /\ t_data' = Some(TsvData(t_rows, t_conf))
    /\ t_pc' = "data"
    /\ UNCHANGED <<t_rows, t_conf, t_item, t_result, pathVars, mkvVars,
                   batchVars, readerVars, rleVars, mosaicVars, ripVars>>

\* process: text = self.accept(data, item, confidence); accept writes
\* item.text where it does not return None
Accept ==
    /\ t_pc = "data"
    /\ t_result' = accept(t_data[1], t_item, t_conf)
    /\ t_item' = IF t_result' = None THEN t_item
                 ELSE [t_item EXCEPT !.text = t_result']
    /\ t_pc' = "done"
    /\ UNCHANGED <<t_rows, t_conf, t_data, pathVars, mkvVars, batchVars,
                   readerVars, rleVars, mosaicVars, ripVars>>

NextAccept ==
    \/ NewTsvData
    \/ Accept

SpecAccept == InitAccept /\ [][NextAccept]_vars

\* the row is a word whose centre lies in the place of the item
InPlace(row) ==
    /\ row.level = 5
    /\ t_item.place # None
    /\ LET h == row.top + row.height \div 2
           w == row.left + row.width \div 2
           pl == t_item.place[1]
       IN  pl[1] <= h /\ h <= pl[3] /\ pl[2] <= w /\ w <= pl[4]

\* some row of the table carries the text with confidence >= threshold
Carried(text) ==
    \E k \in 1 .. Len(t_rows) :
        t_rows[k].text = text /\ t_rows[k].conf >= t_conf

\* the letters of a text: its characters other than blanks and line ends
Letters(str) == SelectSeq(str, LAMBDA ch : ch \notin Whitespace)

\* the texts of the words in the place of the item, in table order
SelectedTexts ==
    Concat(Map(LAMBDA r : r.text, SelectSeq(t_data[1].items, InPlace)))

\* C24 as stated: accept returns None exactly when a word in the place of
\* the item has confidence < threshold and a text that no row of the pass
\* carries with confidence >= threshold; otherwise the text of the item is
\* made of the selected words in table order.
C24_UnresolvedIffUncarried ==
    t_pc = "done" =>
        /\ t_result = None <=>
              \E k \in 1 .. Len(t_rows) :
                  /\ InPlace(t_rows[k])
                  /\ t_rows[k].conf < t_conf
                  /\ ~Carried(t_rows[k].text)
        /\ t_result # None =>
              /\ t_item.text = t_result
              /\ Letters(t_result[1]) = SelectedTexts

\* C24: accept returns None exactly when a word in the place of the item
\* has confidence < threshold and a text that is empty or that no row of
\* the pass carries with confidence >= threshold; otherwise the text of the
\* item is made of the selected words in table order.
C24_UnresolvedIffNoKnownWord ==
    t_pc = "done" =>
        /\ t_result = None <=>
              \E k \in 1 .. Len(t_rows) :
                  /\ InPlace(t_rows[k])
                  /\ t_rows[k].conf < t_conf
                  /\ t_rows[k].text = <<>> \/ ~Carried(t_rows[k].text)
        /\ t_result # None =>
              /\ t_item.text = t_result
              /\ Letters(t_result[1]) = SelectedTexts

\* accept resolved an item of two words on two lines, one of them read
\* with a low confidence and carried by a row of the table away from the
\* place with a high one
C24_Witness ==
    /\ t_pc = "done"
    /\ t_result # None
    /\ Len(Letters(t_result[1])) = 2
    /\ \E k \in 1 .. Len(t_rows) :
          /\ InPlace(t_rows[k])
          /\ t_rows[k].conf < t_conf
          /\ \E j \in 1 .. Len(t_rows) :
                /\ ~InPlace(t_rows[j])
                /\ t_rows[j].text = t_rows[k].text
                /\ t_rows[j].conf >= t_conf

-----------------------------------------------------------------------------
(* Claims on PgsReader.decode *)

\* the positions of the END segments among the segments
EndsIn(segs) == {k \in 1 .. Len(segs) : seg_type(segs[k]) = END}

\* C25: at every point of the decoding, the display sets emitted are one per
\* END segment read, in stream order, numbered 0, 1, 2, ...; each ends with
\* its only END segment, together they hold the segments read up to the
\* last END in order, and the segments read after the last END are in no
\* display set.
C25_OneSetPerEnd ==
    rpc # "idle" =>
        /\ Len(display_sets) = Cardinality(EndsIn(yielded))
        /\ \A k \in 1 .. Len(display_sets) :
              /\ display_sets[k].index = k - 1
              /\ EndsIn(display_sets[k].segments)
                    = {Len(display_sets[k].segments)}
        /\ Concat([k \in 1 .. Len(display_sets) |-> display_sets[k].segments])
              \o segments = yielded
        /\ EndsIn(segments) = {}

\* the reader stopped after a display set of more than one segment and
\* segments read after its END
C25_Witness ==
    /\ rpc = "stopped"
    /\ Len(display_sets) = 1
    /\ Len(display_sets[1].segments) > 1
    /\ Len(segments) > 1

-----------------------------------------------------------------------------
(* Termination of PgsToSrtRipper.rip *)

\* the OCR engines whose word confidences lie in 0 .. 100: those of
\* OcrProfiles but the one that answers -1, and one that reads the words it
\* cannot read with confidence 1
LiveProfiles == (OcrProfiles \ {"hopeless"}) \cup {"stubborn"}

\* the runs of rip with such an engine; the engine that answers 1 is run
\* from the confidence 7, which reaches 0 in two steps
InitRipLive ==
    /\ \E n \in (0 .. SmallItems) \cup {MaxItems}, wide \in BOOLEAN :
          /\ wide => n <= SmallItems
          /\ pgs_items = RipItems(n, wide)
          /\ options \in [confidence : ConfidenceOptions,
                          tesseract_width :
                              IF wide THEN WidthOptions ELSE {None}]
    /\ ocr \in [profile : LiveProfiles, side : OcrSides]
    /\ ocr.profile = "stubborn" => options.confidence # None
    /\ ripper = None
    /\ rip_items = <<>>
    /\ subs = <<>>
    /\ confidence = 0
    /\ max_width = 0
    /\ previous_size = 0
    /\ calls = <<>>
    /\ rip_pc = "new"
    /\ ReaderIdle
    /\ RleIdle
    /\ MosaicIdle
    /\ OrchIdle

\* the states in which rip has a step to take: the constructor, the final
\* pass, and a turn of the while loop (below the bound on the passes)
RipCanStep ==
    \/ rip_pc \in {"new", "final"}
    \/ rip_pc = "loop" /\ previous_size > 0 /\ Len(calls) < MaxPasses

\* rip is sequential code: a step that can be taken is taken. This is weak
\* fairness of NextRip, WF_vars(NextRip), with ENABLED <<NextRip>>_vars
\* written out as the state predicate RipCanStep.
RipFair == ([]<>~RipCanStep) \/ ([]<><<NextRip>>_vars)

SpecRipLive == InitRipLive /\ [][NextRip]_vars /\ RipFair

\* rip has returned, or an exception has left it
RipEnded == rip_pc \in {"done", "raised"}

\* C26: with an OCR engine whose word confidences lie in 0 .. 100, rip on a
\* non-empty item list ends after finitely many passes.
C26_RipTerminates == (pgs_items # <<>>) => <>RipEnded

\* rip returned after a pass of the loop at confidence 0 that followed
\* two passes with little progress and resolved every item left
C26_Witness ==
    /\ rip_pc = "done"
    /\ Len(calls) >= 3
    /\ calls[Len(calls)].confidence = 0
    /\ Len(calls[Len(calls)].items) >= RetryMin
    /\ calls[Len(calls)].remaining = <<>>
    /\ calls[1].confidence > ConfidenceStep

-----------------------------------------------------------------------------
(* Claims on the passes of PgsToSrtRipper.rip *)

\* the positions left unresolved by the last call of process
LeftUnresolved == SeqToSet(calls[Len(calls)].remaining)

\* C27: the first pass takes every item and each later pass exactly the
\* items the pass before it returned; an item resolved in a pass is in no
\* later pass; no item has more than one record; and when rip returns, an
\* item left unresolved has no record, and a resolved item has one record,
\* or none where its post-processed text is empty.
C27_EachItemOnce ==
    /\ calls # <<>> =>
          calls[1].items = [k \in 1 .. Len(pgs_items) |-> k]
    /\ \A p \in 1 .. Len(calls) - 1 :
          /\ calls[p + 1].items = calls[p].remaining
          /\ \A q \in p + 1 .. Len(calls) :
                ResolvedBy(p) \cap SeqToSet(calls[q].items) = {}
    /\ \A k \in 1 .. Len(pgs_items) :
          Cardinality(RecordsOf(subs, pgs_items[k])) <= 1
    /\ rip_pc = "done" =>
          \A k \in 1 .. Len(pgs_items) :
              IF k \in LeftUnresolved
              THEN RecordsOf(subs, pgs_items[k]) = {}
              ELSE /\ pgs_items[k].text # None
                   /\ Cardinality(RecordsOf(subs, pgs_items[k])) =
                         IF PostProcess(ocr, pgs_items[k].text[1]) = <<>>
                         THEN 0 ELSE 1

\* rip returned after two passes or more: an item has its record from the
\* first pass, another from a later pass, and a third is left unresolved
C27_Witness ==
    /\ rip_pc = "done"
    /\ Len(calls) >= 2
    /\ LeftUnresolved # {}
    /\ \E a \in ResolvedBy(1) : RecordsOf(subs, pgs_items[a]) # {}
    /\ \E p \in 2 .. Len(calls) :
          \E c \in ResolvedBy(p) : RecordsOf(subs, pgs_items[c]) # {}

\* from_items, called on the items and the max_width rip holds, closes an
\* area that has no item: ImageArea([], gap)
EmptyAreaAhead ==
    FormAreas(SortByHeight(ItemsAt(pgs_items, rip_items)), ripper.gap,
              max_width, <<>>).raised

\* C28: whenever rip is about to call process, on the first pass, after a
\* pass with little progress or for the final pass, from_items builds no
\* ImageArea with zero items from the items and the max_width it is given.
C28_NoEmptyArea ==
    (rip_pc \in {"loop", "final"} /\ rip_items # <<>>) => ~EmptyAreaAhead

-----------------------------------------------------------------------------
(* Claims on the areas of FullImage.from_items *)

\* where the item of the given index lies in the areas: (area, position)
AreasOf(index) ==
    {<<a, j>> \in (1 .. Len(m_areas)) \X (1 .. MaxMosaicItems + 1) :
        j <= Len(m_areas[a]) /\ m_areas[a][j] = index}

\* C29: when from_items returns, every item it was given lies in exactly one
\* ImageArea, at one position, every area is made of items it was given,
\* and every item has received a place.
C29_AreasPartitionItems ==
    m_pc = "done" =>
        /\ \A k \in 1 .. Len(m_items) :
              /\ Cardinality(AreasOf(m_items[k].index)) = 1
              /\ m_items[k].place # None
        /\ \A a \in 1 .. Len(m_areas) :
              /\ m_areas[a] # <<>>
              /\ \A j \in 1 .. Len(m_areas[a]) :
                    \E k \in 1 .. Len(m_items) : m_items[k].index = m_areas[a][j]

\* from_items returned two areas or more for three items, among them a pair
\* of which only one intersects the other
C29_Witness ==
    /\ m_pc = "done"
    /\ Len(m_items) = 3
    /\ Len(m_areas) >= 2
    /\ \E j, k \in 1 .. 3 :
          intersect(m_items[j], m_items[k]) /\ ~intersect(m_items[k], m_items[j])

-----------------------------------------------------------------------------
(* Claims on the attribution of OCR rows to the items of a pass *)

\* the lines and the columns of the composite image next to the borders of
\* the places of the items
BorderLines ==
    UNION {{pl[1] - 1, pl[1], pl[3], pl[3] + 1} :
              pl \in {m_items[k].place[1] : k \in 1 .. Len(m_items)}}
BorderColumns ==
    UNION {{pl[2] - 1, pl[2], pl[4], pl[4] + 1} :
              pl \in {m_items[k].place[1] : k \in 1 .. Len(m_items)}}

\* the word rows of 6 x 5 pixels centred on a border line and a border
\* column, as tesseract may report them for the composite image
BorderRows ==
    {TsvDataItem(5, 1, 1, 1, w - 3, h - 2, 6, 5, 95, <<"x">>) :
        h \in BorderLines, w \in BorderColumns}

\* the items of the pass whose place the row matches
Owners(row) ==
    {k \in 1 .. Len(m_items) : matches(row, m_items[k].place[1])}

\* C30: after from_items laid out the items of a pass, a word row of the
\* OCR table matches the place of at most one item, wherever its centre is.
C30_RowHasOneOwner ==
    m_pc = "done" => \A row \in BorderRows : Cardinality(Owners(row)) <= 1

\* two items side by side in one area and a third below; a row centred on
\* the last column of the first place is matched by that item alone, and
\* the row centred one column further by none
C30_Witness ==
    /\ m_pc = "done"
    /\ Len(m_items) = 3
    /\ \E j, k \in 1 .. 3 :
          /\ m_items[j].place[1][1] = m_items[k].place[1][1]
          /\ m_items[j].place[1][4] < m_items[k].place[1][2]
          /\ \E row \in BorderRows :
                /\ row_w_center(row) = m_items[j].place[1][4]
                /\ Owners(row) = {j}
          /\ \E row \in BorderRows :
                /\ row_w_center(row) = m_items[j].place[1][4] + 1
                /\ row_h_center(row) = m_items[j].place[1][1]
                /\ Owners(row) = {}
    /\ \E j, k \in 1 .. 3 : m_items[j].place[1][1] < m_items[k].place[1][1]

====
